---- MODULE Spec2Model ----
(***************************************************************************)
(* Model of the asa_servermanager_api supervisor:                          *)
(*   - processmanager.ProcessManager (src/src/processmanager/              *)
(*     processmanager.go, the variant of lines 265-608) with its monitor   *)
(*     loops, exit waiters, PID files and the package-level maps myMap and *)
(*     myMapSarted;                                                        *)
(*   - backup.BackupManager (src/unnamed/part_003) with its tickers,       *)
(*     backup goroutines and flag files.                                   *)
(* Files are kept in one file system fs, a function from the paths that    *)
(* exist to their contents (sequences of one-character strings).           *)
(***************************************************************************)
EXTENDS Integers, Sequences, FiniteSets, Bags, TLC

\* ---------------------------------------------------------------- bounds
\* highest process id the operating system hands out in a run
MaxPid == 2
\* monitor-loop goroutines that can exist at once for one instance
MaxLoops == 2
\* supervisor restarts in a run
MaxRestarts == 1
\* backup goroutines that can exist at once, all instances together
MaxTickers == 2
\* backup cycles that are run in a behaviour, all instances together
MaxCycles == 2
\* hours the wall clock advances in a behaviour
MaxHours == 2
\* highest process id written to a PID file where the conversions are followed
MaxPidValue == 12

\* ------------------------------------------------------- configuration
\* process_config.json: the instances of pm.configs
PMaps == {"a"}
\* a name that is in no configuration
Unknown == "zz"
\* the names a caller can pass
Names == PMaps \cup {Unknown}

\* backup_config.json: the instances of bm.config.Maps
BMaps == {"a", "b"}
BNames == BMaps \cup {Unknown}

Pids == 1..MaxPid

\* ---------------------------------------------------------- file names
\* a path is [dir, stem, suffix]: dir the cleaned directory components,
\* the file name being stem followed by suffix
Path(dir, stem, suffix) == [dir |-> dir, stem |-> stem, suffix |-> suffix]

\* fmt.Sprintf("./data/%s.pid", mapName)
GeneratePIDFileName(mapName) == Path(<<"data">>, mapName, ".pid")

\* filepath.Join(dir, p): the directory components of p follow dir
Join(dir, p) == Path(dir \o p.dir, p.stem, p.suffix)

\* the pidFile of MonitorProcess: filepath.Join("./data", GeneratePIDFileName(mapName))
MonitorPidFile(mapName) == Join(<<"data">>, GeneratePIDFileName(mapName))

\* mergedID changed to name a file of ./data
mergedID_InData(m, e) == Path(<<"data">>, m, e)
\* fmt.Sprintf("%s%s", m, e), a file of the working directory
mergedID(m, e) == Path(<<>>, m, e)

\* ------------------------------------------------ PID file conversions
DigitChars == <<"0", "1", "2", "3", "4", "5", "6", "7", "8", "9">>

RECURSIVE Itoa(_)
\* fmt.Fprintf(file, "%d", pid) for pid >= 0: the decimal digits
Itoa(n) == IF n < 10 THEN <<DigitChars[n + 1]>>
           ELSE Itoa(n \div 10) \o <<DigitChars[(n % 10) + 1]>>

IsDigit(c) == \E d \in 1..10 : DigitChars[d] = c
DigitVal(c) == (CHOOSE d \in 1..10 : DigitChars[d] = c) - 1

RECURSIVE ScanDigits(_, _)
\* value of the longest digit prefix of s, acc being the value so far
ScanDigits(s, acc) == IF s = <<>> \/ ~IsDigit(Head(s)) THEN acc
                      ELSE ScanDigits(Tail(s), acc * 10 + DigitVal(Head(s)))

\* fmt.Sscanf(string(data), "%d", &pid): an error (-1 here) unless the
\* data starts with a digit
Sscanf(data) == IF data = <<>> \/ ~IsDigit(Head(data)) THEN -1
                ELSE ScanDigits(data, 0)

VARIABLES
    fs,           \* the files that exist, path -> contents
    alive,        \* the process ids of the live operating-system processes
    nextPid,      \* the next process id the operating system hands out
    owner,        \* history: pid -> the instance it was launched for ("" if never launched)
    myMap,        \* package-level map: enablement flag per name
    myMapSarted,  \* package-level map: started flag per name
    processes,    \* pm.processes: name -> process id of the recorded cmd, 0 if no entry
    loops,        \* the MonitorProcess goroutines: name -> bag of [pc, cmd]
    waiters,      \* the cmd.Wait goroutines: pid -> [pc, map]
    phase,        \* "boot" before pm.StartAllProcesses of SetupRoutes, then "up"
    restarts,     \* supervisor restarts so far
    resumed,      \* history: the instances the last StartAllProcesses resumed, with the pid found
    enableCalled, \* history: name -> EnableProcess(name) was called since the supervisor started
    bootPid,      \* history: the value of nextPid when the supervisor started
    exited,       \* history: name -> a process of the enabled instance has exited and no
                  \*          monitor loop of it has begun a sleep since
    wanted,       \* history: name -> what the call that was the last one before the
                  \*          supervisor stopped asked for it, "on" (EnableProcess) or "off"
                  \*          (DisableProcess); "unset" without such a call and from the
                  \*          first call after the start on
    mu,           \* pm.mu: "" when free, else the holder
    ret           \* the last call on the control surface: [op, arg, res]

VARIABLES
    tickers,      \* the tickers with their goroutines: name -> bag of [pc, st, tick]
    cycles,       \* history: name -> the IncrementalBackup calls made for it
    bphase,       \* "boot" before bm.StartOrResumeBackups of SetupRoutes, then "up" or "down"
    bret          \* the last BackupManager call: [op, arg, res]

bvars == <<tickers, cycles, bphase, bret>>

VARIABLES
    tree,         \* the files under config.ExtractDir, by their path relative to it
    config,       \* the MapConfig of the instance whose cycles are followed:
                  \* [FileExtensions, SpecificFiles, RetentionDays]
    zipDir,       \* the archives of config.ZipDir: name -> [mod, entries]
    now,          \* the wall clock, in hours
    cret          \* the last backup cycle: [res, ts, removed]

cvars == <<tree, config, zipDir, now, cret>>

VARIABLES
    tokens,       \* the tokens of the rate limiter of the HTTP handlers
    served,       \* history: endpoint -> the requests of the current second that
                  \*          were handed to its handler
    resp          \* the last HTTP request: [endpoint, status], status "next" when
                  \* the handler was called, "429" when the limiter refused

avars == <<tokens, served, resp>>

\* what the process side leaves alone: the backup side and the HTTP limiter
bside == <<bvars, cvars, avars>>

\* the process side without the disk
pmem == <<alive, nextPid, owner, myMap, myMapSarted, processes, loops, waiters,
          phase, restarts, resumed, enableCalled, bootPid, exited, wanted, mu, ret>>

pvars == <<fs, alive, nextPid, owner, myMap, myMapSarted, processes, loops, waiters,
           phase, restarts, resumed, enableCalled, bootPid, exited, wanted, mu, ret>>

\* ------------------------------------------------------------ file system
EmptyFS == [q \in {} |-> <<>>]
Exists(p) == p \in DOMAIN fs
\* os.WriteFile / os.Create + write
WriteFile(f, p, data) == [q \in (DOMAIN f) \cup {p} |-> IF q = p THEN data ELSE f[q]]
\* os.Remove (an error, ignored by every caller, when the file is missing)
RemoveFile(f, p) == [q \in (DOMAIN f) \ {p} |-> f[q]]

\* ReadPID: the process id in the file, -1 on a read or parse error
ReadPID(p) == IF Exists(p) THEN Sscanf(fs[p]) ELSE -1
\* SavePID changed to open the file for appending, without truncating it
SavePID_Appends(f, p, pid) ==
    WriteFile(f, p, (IF p \in DOMAIN f THEN f[p] ELSE <<>>) \o Itoa(pid))
\* SavePID
SavePID(f, p, pid) == WriteFile(f, p, Itoa(pid))
\* RemovePID
RemovePID(f, p) == RemoveFile(f, p)

\* IsProcessRunning: tasklist lists a process with this id
IsProcessRunning(pid) == pid \in alive

\* the number of live monitor loops of an instance
LoopCount(n) == BagCardinality(loops[n])
\* the monitor loops of an instance, by their state
Loops(n) == BagToSet(loops[n])
\* go pm.MonitorProcess(mapName)
GoMonitor(l, n) == [l EXCEPT ![n] = @ (+) SetToBag({[pc |-> "start", cmd |-> 0]})]

\* the live child processes of an instance
Children(n) == {p \in alive : owner[p] = n}

\* the processes the running supervisor launched for n
Launched(n) == {p \in bootPid..(nextPid - 1) : owner[p] = n}

NoWaiter == [pc |-> "none", map |-> ""]
NoCall == [op |-> "none", arg |-> "", res |-> ""]

\* the process id an earlier run of the supervisor may have left behind
LegacyPid == 1

\* rcon.dummyRcon(m, c): the reply of a console that carries out the command
dummyRcon(m, c) == IF c = "doexit" THEN "Exiting... \n "
                   ELSE IF c = "saveworld" THEN "World Saved \n " ELSE ""

\* rcon.DummyRcon(m, c), the SendShutdown of the remote-console client: the
\* replies it can give, the acknowledgement or an error (no text)
DummyRcon(m, c) == {dummyRcon(m, c), ""}

\* --------------------------------------------------------------- Init
\* Memory is as NewProcessManager leaves it.  The disk and the process table
\* are what the supervisor finds at its first start: nothing, or a PID file
\* ./data/<map>.pid naming a process that is alive or dead.
PInit ==
    /\ \E legacy \in {"none", "live", "dead"}, n \in PMaps :
         /\ fs = IF legacy = "none" THEN EmptyFS
                 ELSE (GeneratePIDFileName(n) :> Itoa(LegacyPid))
         /\ alive = IF legacy = "live" THEN {LegacyPid} ELSE {}
         /\ nextPid = IF legacy = "none" THEN 1 ELSE LegacyPid + 1
         /\ owner = [p \in Pids |-> IF legacy # "none" /\ p = LegacyPid THEN n ELSE ""]
    /\ myMap = [n \in Names |-> FALSE]
    /\ myMapSarted = [n \in Names |-> FALSE]
    /\ processes = [n \in PMaps |-> 0]
    /\ loops = [n \in PMaps |-> EmptyBag]
    /\ waiters = [p \in Pids |-> NoWaiter]
    /\ phase = "boot"
    /\ restarts = 0
    /\ resumed = [n \in PMaps |-> 0]
    /\ enableCalled = [n \in PMaps |-> FALSE]
    /\ bootPid = nextPid
    /\ exited = [n \in PMaps |-> FALSE]
    /\ wanted = [n \in PMaps |-> "unset"]
    /\ mu = ""
    /\ ret = NoCall

\* ------------------------------------------------- ProcessManager calls
\* StartAllProcesses finds a live process for n
ResumeFinds(n) ==
    /\ Exists(GeneratePIDFileName(n))
    /\ ReadPID(GeneratePIDFileName(n)) # -1
    /\ IsProcessRunning(ReadPID(GeneratePIDFileName(n)))

\* StartAllProcesses changed to monitor every configured instance, whatever
\* its PID file says
StartAllProcesses_MonitorsAll ==
    /\ UNCHANGED bside
    /\ phase = "boot"
    /\ mu = ""
    /\ phase' = "up"
    /\ myMap' = [n \in Names |-> IF n \in PMaps THEN TRUE ELSE myMap[n]]
    /\ loops' = [n \in PMaps |-> GoMonitor(loops, n)[n]]
    /\ resumed' = [n \in PMaps |-> IF ResumeFinds(n) THEN ReadPID(GeneratePIDFileName(n)) ELSE 0]
    /\ ret' = [op |-> "Resume", arg |-> "", res |-> ""]
    /\ UNCHANGED <<fs, alive, nextPid, owner, myMapSarted, processes, waiters, restarts,
                   enableCalled, bootPid, exited, wanted, mu>>

\* pm.StartAllProcesses(), called once by SetupRoutes
StartAllProcesses ==
    /\ UNCHANGED bside
    /\ phase = "boot"
    /\ mu = ""
    /\ phase' = "up"
    /\ myMap' = [n \in Names |-> IF n \in PMaps /\ ResumeFinds(n) THEN TRUE ELSE myMap[n]]
    /\ loops' = [n \in PMaps |-> IF ResumeFinds(n) THEN GoMonitor(loops, n)[n] ELSE loops[n]]
    /\ resumed' = [n \in PMaps |-> IF ResumeFinds(n) THEN ReadPID(GeneratePIDFileName(n)) ELSE 0]
    /\ ret' = [op |-> "Resume", arg |-> "", res |-> ""]
    /\ UNCHANGED <<fs, alive, nextPid, owner, myMapSarted, processes, waiters, restarts, enableCalled, bootPid, exited, wanted, mu>>

\* EnableProcess changed to set the enablement flag before it looks the name
\* up (the order of lines 238-249)
EnableProcess_FlagFirst(mapName) ==
    /\ UNCHANGED bside
    /\ phase = "up"
    /\ mu = ""
    /\ myMap' = [myMap EXCEPT ![mapName] = TRUE]
    /\ IF mapName \in PMaps
       THEN IF myMapSarted[mapName]
            THEN /\ ret' = [op |-> "Enable", arg |-> mapName, res |-> "Map already running"]
                 /\ UNCHANGED loops
            ELSE /\ LoopCount(mapName) < MaxLoops
                 /\ loops' = GoMonitor(loops, mapName)
                 /\ ret' = [op |-> "Enable", arg |-> mapName, res |-> "Successfully started the map"]
       ELSE /\ ret' = [op |-> "Enable", arg |-> mapName, res |-> "Eror: Map not found"]
            /\ UNCHANGED loops
    /\ enableCalled' = [n \in PMaps |-> enableCalled[n] \/ n = mapName]
    /\ wanted' = [n \in PMaps |-> "unset"]
    /\ UNCHANGED <<fs, alive, nextPid, owner, myMapSarted, processes, waiters, phase,
                   restarts, resumed, bootPid, exited, mu>>

\* pm.EnableProcess(mapName)
EnableProcess(mapName) ==
    /\ UNCHANGED bside
    /\ phase = "up"
    /\ mu = ""
    /\ IF mapName \in PMaps
       THEN IF myMapSarted[mapName]
            THEN /\ ret' = [op |-> "Enable", arg |-> mapName, res |-> "Map already running"]
                 /\ UNCHANGED <<myMap, loops>>
            ELSE /\ LoopCount(mapName) < MaxLoops
                 /\ myMap' = [myMap EXCEPT ![mapName] = TRUE]
                 /\ loops' = GoMonitor(loops, mapName)
                 /\ ret' = [op |-> "Enable", arg |-> mapName, res |-> "Successfully started the map"]
       ELSE /\ ret' = [op |-> "Enable", arg |-> mapName, res |-> "Eror: Map not found"]
            /\ UNCHANGED <<myMap, loops>>
    /\ enableCalled' = [n \in PMaps |-> enableCalled[n] \/ n = mapName]
    /\ wanted' = [n \in PMaps |-> "unset"]
    /\ UNCHANGED <<fs, alive, nextPid, owner, myMapSarted, processes, waiters, phase,
                   restarts, resumed, bootPid, exited, mu>>

\* DisableProcess changed to clean up whatever the remote console answers
DisableProcessReply_CleansUpAlways(mapName, reply) ==
    /\ UNCHANGED bside
    /\ phase = "up"
    /\ mu = ""
    /\ myMap' = [myMap EXCEPT ![mapName] = FALSE]
    /\ myMapSarted' = [myMapSarted EXCEPT ![mapName] = FALSE]
    /\ exited' = [n \in PMaps |-> IF n = mapName THEN FALSE ELSE exited[n]]
    /\ wanted' = [n \in PMaps |-> "unset"]
    /\ processes' = [n \in PMaps |-> IF n = mapName THEN 0 ELSE processes[n]]
    /\ fs' = RemovePID(RemovePID(fs, mergedID(mapName, "_saved.pid")),
                       mergedID(mapName, ".save"))
    /\ ret' = [op |-> "Disable", arg |-> mapName,
               res |-> IF reply = dummyRcon(mapName, "doexit")
                       THEN "Successfully stopped the map"
                       ELSE "Error: Shutting down the map"]
    /\ UNCHANGED <<alive, nextPid, owner, loops, waiters, phase, restarts, resumed,
                   enableCalled, bootPid, mu>>

\* pm.DisableProcess(mapName), the remote console answering reply
DisableProcessReply(mapName, reply) ==
    /\ UNCHANGED bside
    /\ phase = "up"
    /\ mu = ""
    /\ myMap' = [myMap EXCEPT ![mapName] = FALSE]
    /\ myMapSarted' = [myMapSarted EXCEPT ![mapName] = FALSE]
    /\ exited' = [n \in PMaps |-> IF n = mapName THEN FALSE ELSE exited[n]]
    /\ wanted' = [n \in PMaps |-> "unset"]
    /\ IF reply = dummyRcon(mapName, "doexit")
       THEN /\ processes' = [n \in PMaps |-> IF n = mapName THEN 0 ELSE processes[n]]
            /\ fs' = RemovePID(RemovePID(fs, mergedID(mapName, "_saved.pid")),
                               mergedID(mapName, ".save"))
            /\ ret' = [op |-> "Disable", arg |-> mapName, res |-> "Successfully stopped the map"]
       ELSE /\ ret' = [op |-> "Disable", arg |-> mapName, res |-> "Error: Shutting down the map"]
            /\ UNCHANGED <<processes, fs>>
    /\ UNCHANGED <<alive, nextPid, owner, loops, waiters, phase, restarts, resumed,
                   enableCalled, bootPid, mu>>

DisableProcess(mapName) ==
    \E reply \in DummyRcon(mapName, "doexit") : DisableProcessReply(mapName, reply)

\* ------------------------------------------------ MonitorProcess steps
\* "./logs/<map>_<date>_<time>.log", the log record of one monitor loop
CreateLogFileName(mapName) == Path(<<"logs">>, mapName, "_DATE_TIME.log")

\* the loop in state l of instance n moves to pc with cmd
SetLoop(n, l, pc, cmd) ==
    loops' = [loops EXCEPT ![n] = (@ (-) SetToBag({l})) (+) SetToBag({[pc |-> pc, cmd |-> cmd]})]
\* the loop in state l of instance n returns
EndLoop(n, l) == loops' = [loops EXCEPT ![n] = @ (-) SetToBag({l})]

\* time.Sleep(RestartInterval) begins in a loop of n
SleepBegins(n) == exited' = [exited EXCEPT ![n] = FALSE]

\* lines 397-412: the configuration is looked up, the log file is created
MonStart(n, l) ==
    /\ UNCHANGED bside
    /\ l.pc = "start"
    /\ mu = ""
    /\ \E created \in BOOLEAN :
         IF created
         THEN /\ fs' = WriteFile(fs, CreateLogFileName(n), <<>>)
              /\ SetLoop(n, l, "check", 0)
         ELSE /\ EndLoop(n, l)
              /\ UNCHANGED fs
    /\ UNCHANGED <<alive, nextPid, owner, myMap, myMapSarted, processes, waiters,
                   phase, restarts, resumed, enableCalled, bootPid, exited, wanted, mu, ret>>

\* lines 415-420: the PID file names a running process, or not
MonCheck(n, l) ==
    /\ UNCHANGED bside
    /\ l.pc = "check"
    /\ IF ReadPID(MonitorPidFile(n)) # -1 /\ IsProcessRunning(ReadPID(MonitorPidFile(n)))
       THEN SetLoop(n, l, "sleep", 0) /\ SleepBegins(n)
       ELSE SetLoop(n, l, "flag", 0) /\ UNCHANGED exited
    /\ UNCHANGED <<fs, alive, nextPid, owner, myMap, myMapSarted, processes, waiters,
                   phase, restarts, resumed, enableCalled, bootPid, wanted, mu, ret>>

\* line 422 (and 489-491): the enablement flag is read
MonFlag(n, l) ==
    /\ UNCHANGED bside
    /\ l.pc = "flag"
    /\ IF myMap[n] THEN SetLoop(n, l, "set1", 0) ELSE EndLoop(n, l)
    /\ UNCHANGED <<fs, alive, nextPid, owner, myMap, myMapSarted, processes, waiters,
                   phase, restarts, resumed, enableCalled, bootPid, exited, wanted, mu, ret>>

\* line 423
MonSetEnabled(n, l) ==
    /\ UNCHANGED bside
    /\ l.pc = "set1"
    /\ myMap' = [myMap EXCEPT ![n] = TRUE]
    /\ SetLoop(n, l, "set2", 0)
    /\ UNCHANGED <<fs, alive, nextPid, owner, myMapSarted, processes, waiters,
                   phase, restarts, resumed, enableCalled, bootPid, exited, wanted, mu, ret>>

\* line 424
MonSetStarted(n, l) ==
    /\ UNCHANGED bside
    /\ l.pc = "set2"
    /\ myMapSarted' = [myMapSarted EXCEPT ![n] = TRUE]
    /\ SetLoop(n, l, "spawn", 0)
    /\ UNCHANGED <<fs, alive, nextPid, owner, myMap, processes, waiters,
                   phase, restarts, resumed, enableCalled, bootPid, exited, wanted, mu, ret>>

\* MonitorProcess changed to return when the process cannot be started
MonSpawn_GivesUp(n, l) ==
    /\ UNCHANGED bside
    /\ l.pc = "spawn"
    /\ \/ /\ nextPid <= MaxPid
          /\ alive' = alive \cup {nextPid}
          /\ owner' = [owner EXCEPT ![nextPid] = n]
          /\ nextPid' = nextPid + 1
          /\ SetLoop(n, l, "save", nextPid)
          /\ UNCHANGED exited
       \/ /\ EndLoop(n, l)
          /\ UNCHANGED <<alive, owner, nextPid, exited>>
    /\ UNCHANGED <<fs, myMap, myMapSarted, processes, waiters, phase, restarts, resumed,
                   enableCalled, bootPid, wanted, mu, ret>>

\* lines 426-446: the pipes are made and the process is started, or one of
\* the three fails and the loop sleeps
MonSpawn(n, l) ==
    /\ UNCHANGED bside
    /\ l.pc = "spawn"
    /\ \/ /\ nextPid <= MaxPid
          /\ alive' = alive \cup {nextPid}
          /\ owner' = [owner EXCEPT ![nextPid] = n]
          /\ nextPid' = nextPid + 1
          /\ SetLoop(n, l, "save", nextPid)
          /\ UNCHANGED exited
       \/ /\ SetLoop(n, l, "sleep", 0)
          /\ SleepBegins(n)
          /\ UNCHANGED <<alive, owner, nextPid>>
    /\ UNCHANGED <<fs, myMap, myMapSarted, processes, waiters, phase, restarts, resumed,
                   enableCalled, bootPid, wanted, mu, ret>>

\* MonitorProcess changed to go on after a failed SavePID, as the documented
\* library does (docs/process/processmanager.go, lines 146-153)
MonSavePID_NoKill(n, l) ==
    /\ UNCHANGED bside
    /\ l.pc = "save"
    /\ \/ fs' = SavePID(fs, MonitorPidFile(n), l.cmd)
       \/ UNCHANGED fs
       \/ fs' = WriteFile(fs, MonitorPidFile(n), <<>>)
    /\ SetLoop(n, l, "record", l.cmd)
    /\ UNCHANGED <<alive, exited>>
    /\ UNCHANGED <<nextPid, owner, myMap, myMapSarted, processes, waiters,
                   phase, restarts, resumed, enableCalled, bootPid, wanted, mu, ret>>

\* lines 463-468: the PID is saved, or SavePID fails (before or after it has
\* truncated the file) and the process is killed
MonSavePID(n, l) ==
    /\ UNCHANGED bside
    /\ l.pc = "save"
    /\ \/ /\ fs' = SavePID(fs, MonitorPidFile(n), l.cmd)
          /\ SetLoop(n, l, "record", l.cmd)
          /\ UNCHANGED <<alive, exited>>
       \/ /\ alive' = alive \ {l.cmd}
          /\ SetLoop(n, l, "sleep", 0)
          /\ SleepBegins(n)
          /\ \/ UNCHANGED fs
             \/ fs' = WriteFile(fs, MonitorPidFile(n), <<>>)
    /\ UNCHANGED <<nextPid, owner, myMap, myMapSarted, processes, waiters,
                   phase, restarts, resumed, enableCalled, bootPid, wanted, mu, ret>>

\* lines 472-488: the cmd is recorded and its exit waiter is started
MonRecord(n, l) ==
    /\ UNCHANGED bside
    /\ l.pc = "record"
    /\ mu = ""
    /\ processes' = [processes EXCEPT ![n] = l.cmd]
    /\ waiters' = [waiters EXCEPT ![l.cmd] = [pc |-> "wait", map |-> n]]
    /\ SetLoop(n, l, "sleep", 0)
    /\ SleepBegins(n)
    /\ UNCHANGED <<fs, alive, nextPid, owner, myMap, myMapSarted, phase, restarts, resumed,
                   enableCalled, bootPid, wanted, mu, ret>>

\* lines 418 and 494 (and the sleeps of the failure paths): the restart
\* interval has passed
MonWake(n, l) ==
    /\ UNCHANGED bside
    /\ l.pc = "sleep"
    /\ SetLoop(n, l, "check", 0)
    /\ UNCHANGED <<fs, alive, nextPid, owner, myMap, myMapSarted, processes, waiters,
                   phase, restarts, resumed, enableCalled, bootPid, exited, wanted, mu, ret>>

MonitorProcess(n, l) ==
    \/ MonStart(n, l)
    \/ MonCheck(n, l)
    \/ MonFlag(n, l)
    \/ MonSetEnabled(n, l)
    \/ MonSetStarted(n, l)
    \/ MonSpawn(n, l)
    \/ MonSavePID(n, l)
    \/ MonRecord(n, l)
    \/ MonWake(n, l)

\* ------------------------------------------- the exit waiter (476-488)
\* cmd.Wait() returns: the process has exited
WaitReturn(p) ==
    /\ UNCHANGED bside
    /\ waiters[p].pc = "wait"
    /\ p \notin alive
    /\ waiters' = [waiters EXCEPT ![p].pc = "rm"]
    /\ UNCHANGED <<fs, alive, nextPid, owner, myMap, myMapSarted, processes, loops,
                   phase, restarts, resumed, enableCalled, bootPid, exited, wanted, mu, ret>>

\* RemovePID(pidFile)
WaitRemovePID(p) ==
    /\ UNCHANGED bside
    /\ waiters[p].pc = "rm"
    /\ fs' = RemovePID(fs, MonitorPidFile(waiters[p].map))
    /\ waiters' = [waiters EXCEPT ![p].pc = "del"]
    /\ UNCHANGED <<alive, nextPid, owner, myMap, myMapSarted, processes, loops,
                   phase, restarts, resumed, enableCalled, bootPid, exited, wanted, mu, ret>>

\* delete(pm.processes, mapName)
WaitDelete(p) ==
    /\ UNCHANGED bside
    /\ waiters[p].pc = "del"
    /\ mu = ""
    /\ processes' = [processes EXCEPT ![waiters[p].map] = 0]
    /\ waiters' = [waiters EXCEPT ![p] = NoWaiter]
    /\ UNCHANGED <<fs, alive, nextPid, owner, myMap, myMapSarted, loops,
                   phase, restarts, resumed, enableCalled, bootPid, exited, wanted, mu, ret>>

\* ------------------------------------------------------- environment
\* a process exits (a crash, a clean exit, the shutdown the console asked for)
ProcessExit(p) ==
    /\ UNCHANGED bside
    /\ p \in alive
    /\ alive' = alive \ {p}
    /\ exited' = [n \in PMaps |-> exited[n] \/ (p \in Launched(n) /\ myMap[n])]
    /\ UNCHANGED <<fs, nextPid, owner, myMap, myMapSarted, processes, loops, waiters,
                   phase, restarts, resumed, enableCalled, bootPid, wanted, mu, ret>>

\* the supervisor is stopped and started again: memory is lost, the disk and
\* the processes it launched stay
SupervisorRestart ==
    /\ UNCHANGED bside
    /\ restarts < MaxRestarts
    /\ phase = "up"
    /\ restarts' = restarts + 1
    /\ phase' = "boot"
    /\ myMap' = [n \in Names |-> FALSE]
    /\ myMapSarted' = [n \in Names |-> FALSE]
    /\ processes' = [n \in PMaps |-> 0]
    /\ loops' = [n \in PMaps |-> EmptyBag]
    /\ waiters' = [p \in Pids |-> NoWaiter]
    /\ resumed' = [n \in PMaps |-> 0]
    /\ enableCalled' = [n \in PMaps |-> FALSE]
    /\ bootPid' = nextPid
    /\ exited' = [n \in PMaps |-> FALSE]
    /\ wanted' = [n \in PMaps |-> IF ret.arg # n THEN "unset"
                                   ELSE IF ret.op = "Enable" THEN "on"
                                   ELSE IF ret.op = "Disable" THEN "off" ELSE "unset"]
    /\ ret' = NoCall
    /\ UNCHANGED <<fs, alive, nextPid, owner, mu>>

PNext ==
    \/ StartAllProcesses
    \/ \E n \in Names : EnableProcess(n)
    \/ \E n \in Names : DisableProcess(n)
    \/ \E n \in PMaps : \E l \in Loops(n) : MonitorProcess(n, l)
    \/ \E p \in Pids : WaitReturn(p)
    \/ \E p \in Pids : WaitRemovePID(p)
    \/ \E p \in Pids : WaitDelete(p)
    \/ \E p \in Pids : ProcessExit(p)
    \/ SupervisorRestart

vars == <<pvars, bvars, cvars, avars>>

\* =========================================================== BackupManager
\* fmt.Sprintf("./data/%s.save", mapName): the schedule flag
SaveFilePath(mapName) == Path(<<"data">>, mapName, ".save")
\* fmt.Sprintf("./data/%s_saved.txt", mapName): the last backup marker
LastBackupFile(mapName) == Path(<<"data">>, mapName, "_saved.txt")

TrueText == <<"t", "r", "u", "e">>
FalseText == <<"f", "a", "l", "s", "e">>

\* A ticker with its goroutine is [pc, st, tick]:
\*   pc   "first" before the cycle that precedes the first tick, then "wait";
\*   st   "reg" while it is the entry of bm.schedulers, "orphan" once another
\*        ticker has replaced it there, "stopped" after ticker.Stop();
\*   tick the ticks in its channel (0 or 1).
\* A goroutine that waits on a stopped ticker with an empty channel never
\* runs again and is dropped from the bag.
NewTicker == [pc |-> "first", st |-> "reg", tick |-> 0]
Dead(l) == l.pc = "wait" /\ l.st = "stopped" /\ l.tick = 0
Put(b, l) == IF Dead(l) THEN b ELSE b (+) SetToBag({l})
Replace(b, l, m) == Put(b (-) SetToBag({l}), m)

\* bm.schedulers has an entry for n
schedulers == [n \in BMaps |-> \E l \in BagToSet(tickers[n]) : l.st = "reg"]
\* the ticker that is the entry of n
Registered(n) == CHOOSE l \in BagToSet(tickers[n]) : l.st = "reg"

\* the goroutines of n that can still run a backup cycle
ActiveLoops(n) == BagCardinality(tickers[n])

RECURSIVE LoopsOf(_)
\* the goroutines of the instances of S that can still run a backup cycle
LoopsOf(S) ==
    IF S = {} THEN 0
    ELSE LET n == CHOOSE m \in S : TRUE IN ActiveLoops(n) + LoopsOf(S \ {n})

BInit ==
    /\ tickers = [n \in BMaps |-> EmptyBag]
    /\ cycles = [n \in BMaps |-> 0]
    /\ bphase = "boot"
    /\ bret = NoCall

\* the flag files of the disk at the start: per instance none, "true" or "false"
InitFlags == [BMaps -> {"none", "true", "false"}]
FlagFS(f) == [q \in {SaveFilePath(n) : n \in {m \in BMaps : f[m] # "none"}} |->
                IF f[q.stem] = "true" THEN TrueText ELSE FalseText]

\* startNewBackup changed to the goroutine of resumeBackup (lines 78-87),
\* which waits for the first tick
startNewBackup_WaitsForTick(tk, mapName) ==
    LET old == IF \E l \in BagToSet(tk[mapName]) : l.st = "reg"
               THEN LET r == CHOOSE l \in BagToSet(tk[mapName]) : l.st = "reg"
                    IN  (tk[mapName] (-) SetToBag({r})) (+) SetToBag({[r EXCEPT !.st = "orphan"]})
               ELSE tk[mapName]
    IN  [tk EXCEPT ![mapName] = old (+) SetToBag({[NewTicker EXCEPT !.pc = "wait"]})]

\* startNewBackup: a new ticker replaces the entry of bm.schedulers (the old
\* ticker is not stopped) and a goroutine is started on it
startNewBackup(tk, mapName) ==
    LET old == IF \E l \in BagToSet(tk[mapName]) : l.st = "reg"
               THEN LET r == CHOOSE l \in BagToSet(tk[mapName]) : l.st = "reg"
                    IN  (tk[mapName] (-) SetToBag({r})) (+) SetToBag({[r EXCEPT !.st = "orphan"]})
               ELSE tk[mapName]
    IN  [tk EXCEPT ![mapName] = old (+) SetToBag({NewTicker})]

\* bm.StartBackupSchedule(mapName): no configuration, or os.WriteFile fails,
\* or the flag is written and the schedule is started
StartBackupSchedule(mapName) ==
    /\ UNCHANGED <<pmem, cvars, avars>>
    /\ bphase = "up"
    /\ \/ /\ mapName \notin BMaps
          /\ bret' = [op |-> "Start", arg |-> mapName, res |-> "error"]
          /\ UNCHANGED <<fs, tickers>>
       \/ /\ mapName \in BMaps
          /\ bret' = [op |-> "Start", arg |-> mapName, res |-> "error"]
          /\ UNCHANGED <<fs, tickers>>
       \/ /\ mapName \in BMaps
          /\ LoopsOf(BMaps) < MaxTickers
          /\ fs' = WriteFile(fs, SaveFilePath(mapName), TrueText)
          /\ tickers' = startNewBackup(tickers, mapName)
          /\ bret' = [op |-> "Start", arg |-> mapName, res |-> "nil"]
    /\ UNCHANGED <<cycles, bphase>>

\* StopBackupSchedule changed to write the flag before it looks for the entry
StopBackupSchedule_FlagFirst(mapName) ==
    /\ UNCHANGED <<pmem, cvars, avars>>
    /\ bphase = "up"
    /\ fs' = WriteFile(fs, SaveFilePath(mapName), FalseText)
    /\ IF mapName \notin BMaps \/ (mapName \in BMaps /\ ~schedulers[mapName])
       THEN /\ bret' = [op |-> "Stop", arg |-> mapName, res |-> "error"]
            /\ UNCHANGED tickers
       ELSE /\ tickers' = [tickers EXCEPT ![mapName] =
                              Replace(@, Registered(mapName),
                                      [Registered(mapName) EXCEPT !.st = "stopped"])]
            /\ bret' = [op |-> "Stop", arg |-> mapName, res |-> "nil"]
    /\ UNCHANGED <<cycles, bphase>>

\* bm.StopBackupSchedule(mapName)
StopBackupSchedule(mapName) ==
    /\ UNCHANGED <<pmem, cvars, avars>>
    /\ bphase = "up"
    /\ IF mapName \notin BMaps \/ (mapName \in BMaps /\ ~schedulers[mapName])
       THEN /\ bret' = [op |-> "Stop", arg |-> mapName, res |-> "error"]
            /\ UNCHANGED <<fs, tickers>>
       ELSE /\ tickers' = [tickers EXCEPT ![mapName] =
                              Replace(@, Registered(mapName),
                                      [Registered(mapName) EXCEPT !.st = "stopped"])]
            /\ \/ /\ fs' = WriteFile(fs, SaveFilePath(mapName), FalseText)
                  /\ bret' = [op |-> "Stop", arg |-> mapName, res |-> "nil"]
               \/ /\ bret' = [op |-> "Stop", arg |-> mapName, res |-> "error"]
                  /\ UNCHANGED fs
    /\ UNCHANGED <<cycles, bphase>>

\* Flagged changed to take every instance that has a flag file
Flagged_AnyFlagFile == {n \in BMaps : Exists(SaveFilePath(n))}

\* the instances whose flag file holds "true"
Flagged == {n \in BMaps : Exists(SaveFilePath(n)) /\ fs[SaveFilePath(n)] = TrueText}

RECURSIVE StartAll(_, _)
\* startNewBackup for every instance of the set S
StartAll(tk, S) ==
    IF S = {} THEN tk
    ELSE LET n == CHOOSE m \in S : TRUE
         IN StartAll(startNewBackup(tk, n), S \ {n})

\* bm.StartOrResumeBackups(), called once by SetupRoutes.  The instances are
\* visited in any order; the call returns at the first read or write that
\* fails, having started the schedules of the set done, and SetupRoutes then
\* ends the supervisor (log.Fatalf).
StartOrResumeBackups ==
    /\ UNCHANGED <<pmem, cvars, avars>>
    /\ bphase = "boot"
    /\ \E done \in SUBSET Flagged :
         /\ LoopsOf(BMaps) + Cardinality(done) <= MaxTickers
         /\ tickers' = StartAll(tickers, done)
         /\ IF done = Flagged
            THEN \/ /\ bphase' = "up"
                    /\ bret' = [op |-> "StartOrResume", arg |-> "", res |-> "nil"]
                 \/ /\ \E n \in BMaps \ Flagged : Exists(SaveFilePath(n))
                    /\ bphase' = "down"
                    /\ bret' = [op |-> "StartOrResume", arg |-> "", res |-> "error"]
            ELSE /\ bphase' = "down"
                 /\ bret' = [op |-> "StartOrResume", arg |-> "", res |-> "error"]
    /\ UNCHANGED <<fs, cycles>>

RECURSIVE CyclesOf(_)
\* the IncrementalBackup calls made for the instances of S
CyclesOf(S) ==
    IF S = {} THEN 0
    ELSE LET n == CHOOSE m \in S : TRUE IN cycles[n] + CyclesOf(S \ {n})

\* bm.IncrementalBackup(mapName, config), under bm.mu from start to end:
\* the cycle fails on its I/O, or writes the archive and the marker (the
\* time stamp being the ordinal of the cycle)
IncrementalBackup(mapName) ==
    /\ CyclesOf(BMaps) < MaxCycles
    /\ cycles' = [cycles EXCEPT ![mapName] = @ + 1]
    /\ \/ fs' = WriteFile(fs, LastBackupFile(mapName), Itoa(cycles[mapName] + 1))
       \/ UNCHANGED fs

\* the goroutine of startNewBackup: the cycle before the first tick
LoopFirst(n, l) ==
    /\ UNCHANGED <<pmem, cvars, avars>>
    /\ l.pc = "first"
    /\ IncrementalBackup(n)
    /\ tickers' = [tickers EXCEPT ![n] = Replace(@, l, [l EXCEPT !.pc = "wait"])]
    /\ UNCHANGED <<bphase, bret>>

\* the goroutine of startNewBackup: a tick is received, a cycle is run
LoopTick(n, l) ==
    /\ UNCHANGED <<pmem, cvars, avars>>
    /\ l.pc = "wait"
    /\ l.tick = 1
    /\ IncrementalBackup(n)
    /\ tickers' = [tickers EXCEPT ![n] = Replace(@, l, [l EXCEPT !.tick = 0])]
    /\ UNCHANGED <<bphase, bret>>

\* the interval of a ticker that was not stopped passes: a tick is put in
\* its channel, which holds one
Tick(n, l) ==
    /\ UNCHANGED <<pmem, cvars, avars>>
    /\ l.st # "stopped"
    /\ l.tick = 0
    /\ tickers' = [tickers EXCEPT ![n] = Replace(@, l, [l EXCEPT !.tick = 1])]
    /\ UNCHANGED <<fs, cycles, bphase, bret>>

BNext ==
    \/ StartOrResumeBackups
    \/ \E n \in BNames : StartBackupSchedule(n)
    \/ \E n \in BNames : StopBackupSchedule(n)
    \/ \E n \in BMaps : \E l \in BagToSet(tickers[n]) : LoopFirst(n, l)
    \/ \E n \in BMaps : \E l \in BagToSet(tickers[n]) : LoopTick(n, l)
    \/ \E n \in BMaps : \E l \in BagToSet(tickers[n]) : Tick(n, l)

\* ------------------------------------------------ the rate limiter
\* rate.NewLimiter(rate.Every(time.Second), 10): the burst of the limiter
Burst == 10
\* two of the routes of SetupRoutes
Endpoints == {"/start", "/stop"}
NoRequest == [endpoint |-> "", status |-> "none"]
\* the limiter as NewLimiter leaves it (its bucket full), no request made
AIdle ==
    /\ tokens = Burst
    /\ served = [e \in Endpoints |-> 0]
    /\ resp = NoRequest

\* no backup cycle is followed: empty directories, no cycle run, no request
NoCycle == [res |-> "none", ts |-> 0, removed |-> {}]
CIdle ==
    /\ tree = {}
    /\ config = [FileExtensions |-> <<>>, SpecificFiles |-> <<>>, RetentionDays |-> 0]
    /\ zipDir = [z \in {} |-> 0]
    /\ now = 0
    /\ cret = NoCycle
    /\ AIdle

\* the process side alone, on a disk without files of the backup side
PMInit == PInit /\ BInit /\ CIdle
SpecPM == PMInit /\ [][PNext]_vars

\* one run of the supervisor, from its start on the disk it finds
PRunNext ==
    \/ StartAllProcesses
    \/ \E n \in Names : EnableProcess(n)
    \/ \E n \in Names : DisableProcess(n)
    \/ \E n \in PMaps : \E l \in Loops(n) : MonitorProcess(n, l)
    \/ \E p \in Pids : WaitReturn(p)
    \/ \E p \in Pids : WaitRemovePID(p)
    \/ \E p \in Pids : WaitDelete(p)
    \/ \E p \in Pids : ProcessExit(p)
SpecPMRun == PMInit /\ [][PRunNext]_vars

\* the unchanged process side of the backup specification
PIdle ==
    /\ alive = {} /\ nextPid = 1 /\ owner = [p \in Pids |-> ""]
    /\ myMap = [n \in Names |-> FALSE]
    /\ myMapSarted = [n \in Names |-> FALSE]
    /\ processes = [n \in PMaps |-> 0]
    /\ loops = [n \in PMaps |-> EmptyBag]
    /\ waiters = [p \in Pids |-> NoWaiter]
    /\ phase = "boot" /\ restarts = 0
    /\ resumed = [n \in PMaps |-> 0]
    /\ enableCalled = [n \in PMaps |-> FALSE]
    /\ bootPid = 1
    /\ exited = [n \in PMaps |-> FALSE]
    /\ wanted = [n \in PMaps |-> "unset"]
    /\ mu = ""
    /\ ret = NoCall

\* the backup side alone, on a disk that holds flag files only
BMInit ==
    /\ \E f \in InitFlags : fs = FlagFS(f)
    /\ PIdle
    /\ BInit
    /\ CIdle
SpecBM == BMInit /\ [][BNext]_vars

\* ====================================================== the backup cycle
\* The body of IncrementalBackup, followed for one instance with one backup
\* loop.  A file of the source tree is its path relative to ExtractDir; its
\* contents are its own, so the file itself stands for them.
CycleMap == "a"

\* the files a source tree can hold: a.log, b.tmp, sub/a.log
FLog == Path(<<>>, "a", ".log")
FTmp == Path(<<>>, "b", ".tmp")
FSubLog == Path(<<"sub">>, "a", ".log")
\* filepath.Walk visits a directory in lexical order
WalkOrder == <<FLog, FTmp, FSubLog>>
NoFile == Path(<<>>, "", "")

\* the configurations: extensions, specific files, retention days
ExtensionChoices == {<<>>, <<".log">>}
SpecificChoices == {<<>>, <<FTmp>>, <<FLog>>}
RetentionChoices == {0, 1}

\* 24 * time.Hour, in hours
HoursPerDay == 24

\* filepath.Ext(info.Name())
Ext(f) == f.suffix
\* filepath.Base(filePath)
Base(f) == Path(<<>>, f.stem, f.suffix)

\* time.Now().Format("20060102_150405"): the digits of the clock value
TimeFormat(t) == Itoa(t)
\* fmt.Sprintf("%s_%s.zip", mapName, timestamp) in ZipDir
ZipName(mapName, t) == [map |-> mapName, stamp |-> TimeFormat(t)]
NoZip == [map |-> "", stamp |-> <<>>]

\* the archives earlier cycles left: made at hour 0 and at hour 1
OldZip(t) == ZipName(CycleMap, t)
OldTimes == {0, 1}

\* what can go wrong in one cycle: nothing, the creation of the archive, the
\* opening of one file, the write of the marker, the removal of one archive
NoFault == [kind |-> "none", file |-> NoFile, zip |-> NoZip]
Faults ==
    {NoFault, [NoFault EXCEPT !.kind = "create"], [NoFault EXCEPT !.kind = "marker"]}
    \cup {[NoFault EXCEPT !.kind = "open", !.file = f] : f \in tree}
    \cup {[NoFault EXCEPT !.kind = "remove", !.zip = z] : z \in DOMAIN zipDir}

\* the files filepath.Walk(ExtractDir) hands to the callback, in order
Walk == SelectSeq(WalkOrder, LAMBDA f : f \in tree)

\* Matching changed to take every file, whatever its extension
Matching_AnyExtension(ext) == Walk

\* lines 118-133, one extension: the files of the walk with that extension
Matching(ext) == SelectSeq(Walk, LAMBDA f : Ext(f) = ext)

RECURSIVE ByExtension(_)
\* lines 118-133: the walks of all extensions, one after the other
ByExtension(exts) ==
    IF exts = <<>> THEN <<>>
    ELSE Matching(Head(exts)) \o ByExtension(Tail(exts))

\* lines 135-143: the specific files that exist
Specific == SelectSeq(config.SpecificFiles, LAMBDA f : f \in tree)

\* the addFileToZip calls of a cycle, in order
Calls == ByExtension(config.FileExtensions) \o Specific
\* the files a cycle selects
Selected == {Calls[i] : i \in DOMAIN Calls}

\* addFileToZip: an entry named by the base name of the file, with its contents
addFileToZip(entries, f) == Append(entries, [name |-> Base(f), data |-> f])

RECURSIVE AddAll_NeedsFile(_, _, _)
\* AddAll changed to fail when no file at all was added
AddAll_NeedsFile(entries, calls, bad) ==
    IF calls = <<>> THEN [entries |-> entries, err |-> (entries = <<>>)]
    ELSE IF Head(calls) = bad THEN [entries |-> entries, err |-> TRUE]
    ELSE AddAll_NeedsFile(addFileToZip(entries, Head(calls)), Tail(calls), bad)

RECURSIVE AddAll(_, _, _)
\* the addFileToZip calls until one fails (the file bad cannot be opened)
AddAll(entries, calls, bad) ==
    IF calls = <<>> THEN [entries |-> entries, err |-> FALSE]
    ELSE IF Head(calls) = bad THEN [entries |-> entries, err |-> TRUE]
    ELSE AddAll(addFileToZip(entries, Head(calls)), Tail(calls), bad)

\* time.Duration(config.RetentionDays) * 24 * time.Hour
RetentionDuration(days) == days * HoursPerDay

\* Expired changed to take the boundary as expired
Expired_AtBoundary(mod, days, t) == ~(mod + RetentionDuration(days) > t)

\* info.ModTime().Add(retentionDuration).Before(now)
Expired(mod, days, t) == mod + RetentionDuration(days) < t

\* the first archive of a set in the order of the walk (all names have the
\* instance and the width of the stamp in common)
FirstZip(S) == CHOOSE z \in S : \A y \in S : Sscanf(z.stamp) <= Sscanf(y.stamp)

RECURSIVE Sweep(_, _, _, _, _, _)
\* the walk of RemoveOldBackups over the archives todo: an expired archive is
\* removed, the walk ends with an error at the archive bad, which cannot be
\* removed
Sweep(z, todo, days, t, bad, removed) ==
    IF todo = {} THEN [zips |-> z, err |-> FALSE, removed |-> removed]
    ELSE LET a == FirstZip(todo)
         IN  IF Expired(z[a].mod, days, t)
             THEN IF a = bad
                  THEN [zips |-> z, err |-> TRUE, removed |-> removed]
                  ELSE Sweep([q \in (DOMAIN z) \ {a} |-> z[q]], todo \ {a}, days, t, bad,
                             removed \cup {a})
             ELSE Sweep(z, todo \ {a}, days, t, bad, removed)

\* bm.RemoveOldBackups(mapName, config), the archive bad being undeletable
RemoveOldBackups(z, days, t, bad) == Sweep(z, DOMAIN z, days, t, bad, {})

\* the archive file with the entries written to it
WithZip(z, name, t, entries) ==
    [q \in (DOMAIN z) \cup {name} |->
        IF q = name THEN [mod |-> t, entries |-> entries] ELSE z[q]]

\* IncrementalBackup changed to write the marker before the archive
IncrementalBackupCycle_MarkerFirst(mapName, fault) ==
    LET name == ZipName(mapName, now)
        f1 == WriteFile(fs, LastBackupFile(mapName), TimeFormat(now))
    IN  IF fault.kind = "create"
        THEN [res |-> "create", zips |-> zipDir, files |-> f1, removed |-> {}]
        ELSE LET added == AddAll(<<>>, Calls, fault.file)
                 z1 == WithZip(zipDir, name, now, added.entries)
             IN  IF added.err
                 THEN [res |-> "add", zips |-> z1, files |-> f1, removed |-> {}]
                 ELSE LET sw == RemoveOldBackups(z1, config.RetentionDays, now, fault.zip)
                      IN  [res |-> IF sw.err THEN "sweep" ELSE "nil",
                           zips |-> sw.zips, files |-> f1, removed |-> sw.removed]

\* bm.IncrementalBackup(mapName, config) with the fault of this cycle: what it
\* returns (nil, or the step that failed) and what it leaves on disk
IncrementalBackupCycle(mapName, fault) ==
    LET name == ZipName(mapName, now)
    IN  IF fault.kind = "create"
        THEN [res |-> "create", zips |-> zipDir, files |-> fs, removed |-> {}]
        ELSE LET added == AddAll(<<>>, Calls, fault.file)
                 z1 == WithZip(zipDir, name, now, added.entries)
             IN  IF added.err
                 THEN [res |-> "add", zips |-> z1, files |-> fs, removed |-> {}]
                 ELSE IF fault.kind = "marker"
                 THEN [res |-> "marker", zips |-> z1, files |-> fs, removed |-> {}]
                 ELSE LET f1 == WriteFile(fs, LastBackupFile(mapName), TimeFormat(now))
                          sw == RemoveOldBackups(z1, config.RetentionDays, now, fault.zip)
                      IN  [res |-> IF sw.err THEN "sweep" ELSE "nil",
                           zips |-> sw.zips, files |-> f1, removed |-> sw.removed]

\* one call of IncrementalBackup, under bm.mu from start to end
RunCycle(mapName, fault) ==
    /\ CyclesOf(BMaps) < MaxCycles
    /\ cycles' = [cycles EXCEPT ![mapName] = @ + 1]
    /\ LET o == IncrementalBackupCycle(mapName, fault)
       IN  /\ cret' = [res |-> o.res, ts |-> now, removed |-> o.removed]
           /\ fs' = o.files
           /\ zipDir' = o.zips

\* the goroutine of startNewBackup: the cycle before the first tick
CycleFirstWith(n, l, fault) ==
    /\ UNCHANGED <<pmem, avars>>
    /\ l.pc = "first"
    /\ RunCycle(n, fault)
    /\ tickers' = [tickers EXCEPT ![n] = Replace(@, l, [l EXCEPT !.pc = "wait"])]
    /\ UNCHANGED <<bphase, bret, tree, config, now>>

CycleFirst(n, l) == \E fault \in Faults : CycleFirstWith(n, l, fault)

\* the goroutine of startNewBackup: a tick is received, a cycle is run
CycleTickWith(n, l, fault) ==
    /\ UNCHANGED <<pmem, avars>>
    /\ l.pc = "wait"
    /\ l.tick = 1
    /\ RunCycle(n, fault)
    /\ tickers' = [tickers EXCEPT ![n] = Replace(@, l, [l EXCEPT !.tick = 0])]
    /\ UNCHANGED <<bphase, bret, tree, config, now>>

CycleTick(n, l) == \E fault \in Faults : CycleTickWith(n, l, fault)

\* a cycle of instance n is run with this fault
CycleStep(n, fault) ==
    \E l \in BagToSet(tickers[n]) : CycleFirstWith(n, l, fault) \/ CycleTickWith(n, l, fault)

\* an hour passes
ClockAdvance ==
    /\ now < HoursPerDay + MaxHours
    /\ now' = now + 1
    /\ UNCHANGED <<pvars, bvars, avars, tree, config, zipDir, cret>>

CNext ==
    \/ \E l \in BagToSet(tickers[CycleMap]) : CycleFirst(CycleMap, l)
    \/ \E l \in BagToSet(tickers[CycleMap]) : CycleTick(CycleMap, l)
    \/ \E l \in BagToSet(tickers[CycleMap]) : Tick(CycleMap, l)
    \/ ClockAdvance

\* StartBackupSchedule(CycleMap) has just returned nil; the source tree, the
\* configuration and the archives of earlier cycles are any of the choices,
\* and one retention day has passed since hour 0
CInit ==
    /\ PIdle
    /\ fs = (SaveFilePath(CycleMap) :> TrueText)
    /\ tickers = [n \in BMaps |-> IF n = CycleMap THEN SetToBag({NewTicker}) ELSE EmptyBag]
    /\ cycles = [n \in BMaps |-> 0]
    /\ bphase = "up"
    /\ bret = [op |-> "Start", arg |-> CycleMap, res |-> "nil"]
    /\ tree \in SUBSET {FLog, FTmp, FSubLog}
    /\ \E e \in ExtensionChoices, sp \in SpecificChoices, d \in RetentionChoices :
         config = [FileExtensions |-> e, SpecificFiles |-> sp, RetentionDays |-> d]
    /\ \E old \in {{}, OldTimes} :
         zipDir = [z \in {OldZip(t) : t \in old} |-> [mod |-> Sscanf(z.stamp), entries |-> <<>>]]
    /\ now = HoursPerDay
    /\ cret = NoCycle
    /\ AIdle
SpecCycle == CInit /\ [][CNext]_vars

\* =========================== the process side with its environment
\* One run of the supervisor, followed together with one more part of its
\* environment: the operating system handing out an old process id again;
\* the output of the children and the /logs call; DisableProcess in its two
\* halves, before and after the exchange with the remote console, during
\* which it holds pm.mu.

\* a process id is free to be handed out again once no cmd.Wait and no cmd
\* of a monitor loop holds its process handle
HandleHeld(p) ==
    \/ waiters[p].pc = "wait"
    \/ \E n \in PMaps : \E l \in Loops(n) : l.cmd = p

\* the operating system gives the id of an exited child to a process that is
\* no child of the supervisor; tasklist lists it under that id
PidReuse(p) ==
    /\ UNCHANGED bside
    /\ p \notin alive
    /\ owner[p] # ""
    /\ ~HandleHeld(p)
    /\ alive' = alive \cup {p}
    /\ owner' = [owner EXCEPT ![p] = ""]
    /\ UNCHANGED <<fs, nextPid, myMap, myMapSarted, processes, loops, waiters,
                   phase, restarts, resumed, enableCalled, bootPid, exited, wanted, mu, ret>>

\* a line of output, as WriteLog writes it: the message and "\n"
LogLine == <<"o", "k", "\n">>

\* the scanner goroutines of a child of this run write the first line of its
\* output to the log file of the monitor loop
WriteLog(n) ==
    /\ UNCHANGED bside
    /\ Launched(n) \cap alive # {}
    /\ Exists(CreateLogFileName(n))
    /\ fs[CreateLogFileName(n)] = <<>>
    /\ fs' = WriteFile(fs, CreateLogFileName(n), LogLine)
    /\ UNCHANGED pmem

\* fmt.Sprintf("./logs/%s_%s.log", mapName, dateStr), the file RetrieveLogs opens
RetrieveLogFileName(mapName) == Path(<<"logs">>, mapName, "_DATE.log")

NoLogsFound == "No logs found for the specified process."
LogFileEmpty == "Log file is empty."

\* RetrieveLogs(mapName): the result is the text of the file, or one of the
\* two messages
RetrieveLogs(mapName) ==
    /\ UNCHANGED bside
    /\ phase = "up"
    /\ ret' = [op |-> "Logs", arg |-> mapName,
               res |-> IF ~Exists(RetrieveLogFileName(mapName)) THEN NoLogsFound
                       ELSE IF fs[RetrieveLogFileName(mapName)] = <<>> THEN LogFileEmpty
                       ELSE fs[RetrieveLogFileName(mapName)]]
    /\ UNCHANGED <<fs, alive, nextPid, owner, myMap, myMapSarted, processes, loops, waiters,
                   phase, restarts, resumed, enableCalled, bootPid, exited, wanted, mu>>

\* DisableProcess, lines 594-598: pm.mu is taken and the two flags are
\* cleared; mu holds the argument of the call until it returns
DisableBegin(mapName) ==
    /\ UNCHANGED bside
    /\ phase = "up"
    /\ mu = ""
    /\ mu' = mapName
    /\ myMap' = [myMap EXCEPT ![mapName] = FALSE]
    /\ myMapSarted' = [myMapSarted EXCEPT ![mapName] = FALSE]
    /\ exited' = [n \in PMaps |-> IF n = mapName THEN FALSE ELSE exited[n]]
    /\ wanted' = [n \in PMaps |-> "unset"]
    /\ UNCHANGED <<fs, alive, nextPid, owner, processes, loops, waiters, phase, restarts,
                   resumed, enableCalled, bootPid, ret>>

\* DisableProcess, lines 600-607: the remote console has answered reply, the
\* call cleans up or not, and the deferred Unlock frees pm.mu
DisableEnd(mapName, reply) ==
    /\ UNCHANGED bside
    /\ mu = mapName
    /\ mu' = ""
    /\ IF reply = dummyRcon(mapName, "doexit")
       THEN /\ processes' = [n \in PMaps |-> IF n = mapName THEN 0 ELSE processes[n]]
            /\ fs' = RemovePID(RemovePID(fs, mergedID(mapName, "_saved.pid")),
                               mergedID(mapName, ".save"))
            /\ ret' = [op |-> "Disable", arg |-> mapName, res |-> "Successfully stopped the map"]
       ELSE /\ ret' = [op |-> "Disable", arg |-> mapName, res |-> "Error: Shutting down the map"]
            /\ UNCHANGED <<processes, fs>>
    /\ UNCHANGED <<alive, nextPid, owner, myMap, myMapSarted, loops, waiters, phase, restarts,
                   resumed, enableCalled, bootPid, exited, wanted>>

\* one run of the supervisor, with process ids handed out again
PReuseNext ==
    \/ PRunNext
    \/ \E p \in Pids : PidReuse(p)
SpecPMReuse == PMInit /\ [][PReuseNext]_vars

\* one run of the supervisor, with the output of the children and the /logs call
PLogsNext ==
    \/ PRunNext
    \/ \E n \in PMaps : WriteLog(n)
    \/ \E n \in Names : RetrieveLogs(n)
SpecPMLogs == PMInit /\ [][PLogsNext]_vars

\* one run of the supervisor, with DisableProcess in its two halves
PLockNext ==
    \/ StartAllProcesses
    \/ \E n \in Names : EnableProcess(n)
    \/ \E n \in Names : DisableBegin(n)
    \/ \E n \in Names : \E reply \in DummyRcon(n, "doexit") : DisableEnd(n, reply)
    \/ \E n \in PMaps : \E l \in Loops(n) : MonitorProcess(n, l)
    \/ \E p \in Pids : WaitReturn(p)
    \/ \E p \in Pids : WaitRemovePID(p)
    \/ \E p \in Pids : WaitDelete(p)
    \/ \E p \in Pids : ProcessExit(p)
SpecPMLock == PMInit /\ [][PLockNext]_vars

\* EnableProcess, lines 573-574: pm.mu is taken; mu holds "enable" and ret
\* the pending call until it returns (calls are followed while the instance
\* has room for one more monitor loop)
EnableBegin(mapName) ==
    /\ UNCHANGED bside
    /\ phase = "up"
    /\ mu = ""
    /\ mapName \in PMaps => LoopCount(mapName) < MaxLoops
    /\ mu' = "enable"
    /\ ret' = [op |-> "Enable", arg |-> mapName, res |-> "pending"]
    /\ UNCHANGED <<fs, alive, nextPid, owner, myMap, myMapSarted, processes, loops, waiters,
                   phase, restarts, resumed, enableCalled, bootPid, exited, wanted>>

\* EnableProcess as its earlier version returns (lines 238-249): the return
\* of "Map already running" leaves pm.mu locked
EnableEnd_LeaksLock(mapName) ==
    /\ UNCHANGED bside
    /\ mu = "enable" /\ ret.op = "Enable" /\ ret.arg = mapName /\ ret.res = "pending"
    /\ IF mapName \in PMaps
       THEN IF myMapSarted[mapName]
            THEN /\ ret' = [op |-> "Enable", arg |-> mapName, res |-> "Map already running"]
                 /\ UNCHANGED <<myMap, loops, mu>>
            ELSE /\ LoopCount(mapName) < MaxLoops
                 /\ myMap' = [myMap EXCEPT ![mapName] = TRUE]
                 /\ loops' = GoMonitor(loops, mapName)
                 /\ ret' = [op |-> "Enable", arg |-> mapName, res |-> "Successfully started the map"]
                 /\ mu' = ""
       ELSE /\ ret' = [op |-> "Enable", arg |-> mapName, res |-> "Eror: Map not found"]
            /\ mu' = ""
            /\ UNCHANGED <<myMap, loops>>
    /\ enableCalled' = [n \in PMaps |-> enableCalled[n] \/ n = mapName]
    /\ wanted' = [n \in PMaps |-> "unset"]
    /\ UNCHANGED <<fs, alive, nextPid, owner, myMapSarted, processes, waiters, phase,
                   restarts, resumed, bootPid, exited>>

\* EnableProcess, lines 576-586: one of its three returns, and the deferred
\* Unlock frees pm.mu
EnableEnd(mapName) ==
    /\ UNCHANGED bside
    /\ mu = "enable" /\ ret.op = "Enable" /\ ret.arg = mapName /\ ret.res = "pending"
    /\ mu' = ""
    /\ IF mapName \in PMaps
       THEN IF myMapSarted[mapName]
            THEN /\ ret' = [op |-> "Enable", arg |-> mapName, res |-> "Map already running"]
                 /\ UNCHANGED <<myMap, loops>>
            ELSE /\ LoopCount(mapName) < MaxLoops
                 /\ myMap' = [myMap EXCEPT ![mapName] = TRUE]
                 /\ loops' = GoMonitor(loops, mapName)
                 /\ ret' = [op |-> "Enable", arg |-> mapName, res |-> "Successfully started the map"]
       ELSE /\ ret' = [op |-> "Enable", arg |-> mapName, res |-> "Eror: Map not found"]
            /\ UNCHANGED <<myMap, loops>>
    /\ enableCalled' = [n \in PMaps |-> enableCalled[n] \/ n = mapName]
    /\ wanted' = [n \in PMaps |-> "unset"]
    /\ UNCHANGED <<fs, alive, nextPid, owner, myMapSarted, processes, waiters, phase,
                   restarts, resumed, bootPid, exited>>

\* one run of the supervisor with both calls in their two halves, each
\* instance followed up to its first launch
PMutexNext ==
    \/ StartAllProcesses
    \/ \E n \in Names : EnableBegin(n)
    \/ \E n \in Names : EnableEnd(n)
    \/ \E n \in Names : DisableBegin(n)
    \/ \E n \in Names : \E reply \in DummyRcon(n, "doexit") : DisableEnd(n, reply)
    \/ \E n \in PMaps : \E l \in Loops(n) :
          (l.pc = "spawn" => Launched(n) = {}) /\ MonitorProcess(n, l)
    \/ \E p \in Pids : WaitReturn(p)
    \/ \E p \in Pids : WaitRemovePID(p)
    \/ \E p \in Pids : WaitDelete(p)
    \/ \E p \in Pids : ProcessExit(p)
SpecPMMutex == PMInit /\ [][PMutexNext]_vars


\* ============================================ the PID file conversions
\* SavePID and ReadPID, followed on one PID file for the process ids up to
\* MaxPidValue.
PidValues == 0..MaxPidValue
\* the PID file that is written and read
PidFile == MonitorPidFile("a")

\* SavePID(PidFile, pid): os.Create fails and the file is as it was, or
\* Fprintf fails on the truncated file, or the digits are written; the call
\* is recorded with what ReadPID gave before it
SavePIDCall(pid) ==
    /\ \E out \in {"nil", "create", "write"} :
         /\ fs' = IF out = "nil" THEN SavePID(fs, PidFile, pid)
                  ELSE IF out = "write" THEN WriteFile(fs, PidFile, <<>>)
                  ELSE fs
         /\ ret' = [op |-> "SavePID", arg |-> [pid |-> pid, old |-> ReadPID(PidFile)],
                    res |-> out]
    /\ UNCHANGED <<alive, nextPid, owner, myMap, myMapSarted, processes, loops, waiters,
                   phase, restarts, resumed, enableCalled, bootPid, exited, wanted, mu>>
    /\ UNCHANGED bside

\* ReadPID(PidFile): the process id, or -1 for an error
ReadPIDCall ==
    /\ ret' = [op |-> "ReadPID", arg |-> [pid |-> 0, old |-> ReadPID(PidFile)],
               res |-> IF ReadPID(PidFile) = -1 THEN "error" ELSE "nil"]
    /\ UNCHANGED <<fs, alive, nextPid, owner, myMap, myMapSarted, processes, loops, waiters,
                   phase, restarts, resumed, enableCalled, bootPid, exited, wanted, mu>>
    /\ UNCHANGED bside

\* RemovePID(PidFile)
RemovePIDCall ==
    /\ fs' = RemovePID(fs, PidFile)
    /\ ret' = [op |-> "RemovePID", arg |-> [pid |-> 0, old |-> ReadPID(PidFile)],
               res |-> IF Exists(PidFile) THEN "nil" ELSE "error"]
    /\ UNCHANGED <<alive, nextPid, owner, myMap, myMapSarted, processes, loops, waiters,
                   phase, restarts, resumed, enableCalled, bootPid, exited, wanted, mu>>
    /\ UNCHANGED bside

PidNext ==
    \/ \E pid \in PidValues : SavePIDCall(pid)
    \/ ReadPIDCall
    \/ RemovePIDCall

\* an empty disk, nothing running
PidInit ==
    /\ fs = EmptyFS
    /\ PIdle
    /\ BInit
    /\ CIdle
SpecPID == PidInit /\ [][PidNext]_vars


\* ================================================== both managers together
\* The process manager and the backup manager of one supervisor run, on the
\* instances both configurations have and on one disk, from the first start
\* on an empty disk.  EnableProcess and StartBackupSchedule are called for an
\* instance that has no loop of their kind, and an instance is followed up to
\* the second launch of its process.
Shared == PMaps \cap BMaps

PBothNext ==
    \/ StartAllProcesses
    \/ \E n \in Shared : LoopCount(n) = 0 /\ EnableProcess(n)
    \/ \E n \in Shared : DisableProcess(n)
    \/ \E n \in Shared : \E l \in Loops(n) :
          (l.pc = "spawn" => Launched(n) = {}) /\ MonitorProcess(n, l)
    \/ \E p \in Pids : WaitReturn(p)
    \/ \E p \in Pids : WaitRemovePID(p)
    \/ \E p \in Pids : WaitDelete(p)
    \/ \E p \in Pids : ProcessExit(p)

BBothNext ==
    \/ StartOrResumeBackups
    \/ \E n \in Shared : ActiveLoops(n) = 0 /\ StartBackupSchedule(n)
    \/ \E n \in Shared : StopBackupSchedule(n)
    \/ \E n \in Shared : \E l \in BagToSet(tickers[n]) : LoopFirst(n, l)
    \/ \E n \in Shared : \E l \in BagToSet(tickers[n]) : LoopTick(n, l)
    \/ \E n \in Shared : \E l \in BagToSet(tickers[n]) : Tick(n, l)

BothNext == PBothNext \/ BBothNext
BothInit == PMInit /\ fs = EmptyFS
SpecBoth == BothInit /\ [][BothNext]_vars

\* ============================================ the backup manager lock
\* The backup side with bm.mu: StartBackupSchedule, StopBackupSchedule and
\* IncrementalBackup each take the lock when they begin and free it when they
\* return (defer bm.mu.Unlock()).  A call that holds the lock is the pending
\* bret; a goroutine that holds it has pc "cycle".

\* bm.mu is locked
BmuHeld ==
    \/ bret.res = "pending"
    \/ \E n \in BMaps : \E l \in BagToSet(tickers[n]) : l.pc = "cycle"

\* bm.mu.Lock() of StartBackupSchedule (59) and of StopBackupSchedule (206)
ScheduleLock(op, mapName) ==
    /\ UNCHANGED <<pmem, cvars, avars>>
    /\ bphase = "up"
    /\ ~BmuHeld
    /\ (op = "Start" /\ mapName \in BMaps) => LoopsOf(BMaps) < MaxTickers
    /\ bret' = [op |-> op, arg |-> mapName, res |-> "pending"]
    /\ UNCHANGED <<fs, tickers, cycles, bphase>>

\* StartBackupSchedule from line 62 to its return
StartReturn(mapName) ==
    /\ bret = [op |-> "Start", arg |-> mapName, res |-> "pending"]
    /\ StartBackupSchedule(mapName)

\* StopBackupSchedule from line 209 to its return
StopReturn(mapName) ==
    /\ bret = [op |-> "Stop", arg |-> mapName, res |-> "pending"]
    /\ StopBackupSchedule(mapName)

\* IncrementalBackup changed to run without bm.mu
CycleLock_NoLock(n, l) ==
    /\ UNCHANGED <<pmem, cvars, avars>>
    /\ l.pc = "first" \/ (l.pc = "wait" /\ l.tick = 1)
    /\ CyclesOf(BMaps) < MaxCycles
    /\ tickers' = [tickers EXCEPT ![n] =
                      Replace(@, l, [l EXCEPT !.pc = "cycle",
                                              !.tick = IF l.pc = "wait" THEN 0 ELSE @])]
    /\ UNCHANGED <<fs, cycles, bphase, bret>>

\* a goroutine of startNewBackup calls IncrementalBackup, before its loop or
\* on a tick: bm.mu.Lock() (102)
CycleLock(n, l) ==
    /\ UNCHANGED <<pmem, cvars, avars>>
    /\ l.pc = "first" \/ (l.pc = "wait" /\ l.tick = 1)
    /\ ~BmuHeld
    /\ CyclesOf(BMaps) < MaxCycles
    /\ tickers' = [tickers EXCEPT ![n] =
                      Replace(@, l, [l EXCEPT !.pc = "cycle",
                                              !.tick = IF l.pc = "wait" THEN 0 ELSE @])]
    /\ UNCHANGED <<fs, cycles, bphase, bret>>

\* IncrementalBackup from line 105 to its return
CycleUnlock(n, l) ==
    /\ UNCHANGED <<pmem, cvars, avars>>
    /\ l.pc = "cycle"
    /\ IncrementalBackup(n)
    /\ tickers' = [tickers EXCEPT ![n] = Replace(@, l, [l EXCEPT !.pc = "wait"])]
    /\ UNCHANGED <<bphase, bret>>

BLockNext ==
    \/ StartOrResumeBackups
    \/ \E n \in BNames : ScheduleLock("Start", n)
    \/ \E n \in BNames : ScheduleLock("Stop", n)
    \/ \E n \in BNames : StartReturn(n)
    \/ \E n \in BNames : StopReturn(n)
    \/ \E n \in BMaps : \E l \in BagToSet(tickers[n]) : CycleLock(n, l)
    \/ \E n \in BMaps : \E l \in BagToSet(tickers[n]) : CycleUnlock(n, l)
    \/ \E n \in BMaps : \E l \in BagToSet(tickers[n]) : Tick(n, l)
SpecBMLock == BMInit /\ [][BLockNext]_vars

\* ============================================== the /start handler
\* The supervisor as its HTTP surface drives it: SetupRoutes, then /start
\* requests.  The handler works on a ProcessManager and a BackupManager it
\* makes for the request; the enablement and started flags are package-level
\* and shared, bm.schedulers is not.  A ticker with st "local" is the entry of
\* the BackupManager of a request, which nothing holds once the handler has
\* returned.  An instance is followed up to the second launch of its process.

\* the ticker startNewBackup registers in the BackupManager of a request
LocalTicker == [NewTicker EXCEPT !.st = "local"]

\* StartProcess(w, r) with ?map=mapName: pm.EnableProcess on a new
\* ProcessManager, then bm.StartBackupSchedule on a new BackupManager
StartProcess(mapName) ==
    /\ UNCHANGED <<cvars, avars>>
    /\ phase = "up" /\ bphase = "up"
    /\ IF mapName \in PMaps
       THEN IF myMapSarted[mapName]
            THEN /\ ret' = [op |-> "Enable", arg |-> mapName, res |-> "Map already running"]
                 /\ UNCHANGED <<myMap, loops>>
            ELSE /\ LoopCount(mapName) < MaxLoops
                 /\ myMap' = [myMap EXCEPT ![mapName] = TRUE]
                 /\ loops' = GoMonitor(loops, mapName)
                 /\ ret' = [op |-> "Enable", arg |-> mapName, res |-> "Successfully started the map"]
       ELSE /\ ret' = [op |-> "Enable", arg |-> mapName, res |-> "Eror: Map not found"]
            /\ UNCHANGED <<myMap, loops>>
    /\ enableCalled' = [n \in PMaps |-> enableCalled[n] \/ n = mapName]
    /\ wanted' = [n \in PMaps |-> "unset"]
    /\ \/ /\ mapName \notin BMaps
          /\ bret' = [op |-> "Start", arg |-> mapName, res |-> "error"]
          /\ UNCHANGED <<fs, tickers>>
       \/ /\ mapName \in BMaps
          /\ bret' = [op |-> "Start", arg |-> mapName, res |-> "error"]
          /\ UNCHANGED <<fs, tickers>>
       \/ /\ mapName \in BMaps
          /\ LoopsOf(BMaps) < MaxTickers
          /\ fs' = WriteFile(fs, SaveFilePath(mapName), TrueText)
          /\ tickers' = [tickers EXCEPT ![mapName] = @ (+) SetToBag({LocalTicker})]
          /\ bret' = [op |-> "Start", arg |-> mapName, res |-> "nil"]
    /\ UNCHANGED <<alive, nextPid, owner, myMapSarted, processes, waiters, phase,
                   restarts, resumed, bootPid, exited, mu, cycles, bphase>>

StartNext ==
    \/ StartAllProcesses
    \/ StartOrResumeBackups
    \/ \E n \in Shared \cup {Unknown} : StartProcess(n)
    \/ \E n \in Shared : \E l \in Loops(n) :
          (l.pc = "spawn" => Launched(n) = {}) /\ MonitorProcess(n, l)
    \/ \E p \in Pids : WaitReturn(p)
    \/ \E p \in Pids : WaitRemovePID(p)
    \/ \E p \in Pids : WaitDelete(p)
    \/ \E p \in Pids : ProcessExit(p)
    \/ \E n \in Shared : \E l \in BagToSet(tickers[n]) : LoopFirst(n, l)
    \/ \E n \in Shared : \E l \in BagToSet(tickers[n]) : LoopTick(n, l)
    \/ \E n \in Shared : \E l \in BagToSet(tickers[n]) : Tick(n, l)
SpecStart == BothInit /\ [][StartNext]_vars

\* ======================================= the documented process manager
\* The library of docs/process/processmanager.go: no enablement flag, the
\* PID file <map>.pid in the working directory, and a monitor loop that waits
\* for its process itself.  A monitor loop is [pc, cmd] as above; myMap,
\* myMapSarted and the exit waiters are not used.

\* fmt.Sprintf("%s.pid", mapName)
DocPIDFileName(mapName) == Path(<<>>, mapName, ".pid")

\* strconv.Atoi(string(data)): an error (-1 here) unless the data are digits
Atoi(data) == IF data # <<>> /\ \A i \in DOMAIN data : IsDigit(data[i])
              THEN ScanDigits(data, 0) ELSE -1
\* ReadPID of the library
DocReadPID(p) == IF Exists(p) THEN Atoi(fs[p]) ELSE -1

\* what the library leaves alone
docIdle == <<myMap, myMapSarted, waiters, restarts, resumed, enableCalled, bootPid,
             exited, wanted, mu>>

\* StartAllProcesses: a monitor loop is started for every configured instance
DocStartAllProcesses ==
    /\ UNCHANGED <<bside, docIdle>>
    /\ phase = "boot"
    /\ phase' = "up"
    /\ loops' = [n \in PMaps |-> GoMonitor(loops, n)[n]]
    /\ ret' = [op |-> "Resume", arg |-> "", res |-> ""]
    /\ UNCHANGED <<fs, alive, nextPid, owner, processes>>

\* EnableProcess(mapName): a monitor loop is started when the instance is
\* configured and pm.processes has no entry for it
DocEnableProcess(mapName) ==
    /\ UNCHANGED <<bside, docIdle>>
    /\ phase = "up"
    /\ IF mapName \in PMaps /\ processes[mapName] = 0
       THEN /\ LoopCount(mapName) < MaxLoops
            /\ loops' = GoMonitor(loops, mapName)
       ELSE UNCHANGED loops
    /\ ret' = [op |-> "Enable", arg |-> mapName, res |-> ""]
    /\ UNCHANGED <<fs, alive, nextPid, owner, processes, phase>>

\* DisableProcess(mapName): when pm.processes has an entry, its process is
\* killed, the entry is deleted and the PID file is removed; the call is
\* recorded with the branch it took
DocDisableProcess(mapName) ==
    /\ UNCHANGED <<bside, docIdle>>
    /\ phase = "up"
    /\ IF mapName \in PMaps /\ processes[mapName] # 0
       THEN /\ alive' = alive \ {processes[mapName]}
            /\ processes' = [processes EXCEPT ![mapName] = 0]
            /\ fs' = RemoveFile(fs, DocPIDFileName(mapName))
            /\ ret' = [op |-> "Disable", arg |-> mapName, res |-> "stopped"]
       ELSE /\ UNCHANGED <<alive, processes, fs>>
            /\ ret' = [op |-> "Disable", arg |-> mapName, res |-> "not running"]
    /\ UNCHANGED <<nextPid, owner, loops, phase>>

\* lines 121-131: the configuration is looked up
DocMonStart(n, l) ==
    /\ UNCHANGED <<bside, docIdle>>
    /\ l.pc = "start"
    /\ SetLoop(n, l, "check", 0)
    /\ UNCHANGED <<fs, alive, nextPid, owner, processes, phase, ret>>

\* lines 134-138: the PID file names a running process, or not
DocMonCheck(n, l) ==
    /\ UNCHANGED <<bside, docIdle>>
    /\ l.pc = "check"
    /\ IF DocReadPID(DocPIDFileName(n)) # -1
          /\ IsProcessRunning(DocReadPID(DocPIDFileName(n)))
       THEN SetLoop(n, l, "sleep", 0)
       ELSE SetLoop(n, l, "spawn", 0)
    /\ UNCHANGED <<fs, alive, nextPid, owner, processes, phase, ret>>

\* lines 139-144: StartProcess starts the process, or fails
DocMonSpawn(n, l) ==
    /\ UNCHANGED <<bside, docIdle>>
    /\ l.pc = "spawn"
    /\ \/ /\ nextPid <= MaxPid
          /\ alive' = alive \cup {nextPid}
          /\ owner' = [owner EXCEPT ![nextPid] = n]
          /\ nextPid' = nextPid + 1
          /\ SetLoop(n, l, "save", nextPid)
       \/ /\ SetLoop(n, l, "sleep", 0)
          /\ UNCHANGED <<alive, owner, nextPid>>
    /\ UNCHANGED <<fs, processes, phase, ret>>

\* lines 146-149: the PID is saved; a failure is logged only
DocMonSavePID(n, l) ==
    /\ UNCHANGED <<bside, docIdle>>
    /\ l.pc = "save"
    /\ fs' = SavePID(fs, DocPIDFileName(n), l.cmd) \/ UNCHANGED fs
    /\ SetLoop(n, l, "record", l.cmd)
    /\ UNCHANGED <<alive, nextPid, owner, processes, phase, ret>>

\* lines 151-153: the cmd is recorded
DocMonRecord(n, l) ==
    /\ UNCHANGED <<bside, docIdle>>
    /\ l.pc = "record"
    /\ processes' = [processes EXCEPT ![n] = l.cmd]
    /\ SetLoop(n, l, "wait", l.cmd)
    /\ UNCHANGED <<fs, alive, nextPid, owner, phase, ret>>

\* lines 155-156: cmd.Wait() returns and the PID file is removed
DocMonWait(n, l) ==
    /\ UNCHANGED <<bside, docIdle>>
    /\ l.pc = "wait"
    /\ l.cmd \notin alive
    /\ fs' = RemoveFile(fs, DocPIDFileName(n))
    /\ SetLoop(n, l, "del", 0)
    /\ UNCHANGED <<alive, nextPid, owner, processes, phase, ret>>

\* lines 158-160: the entry is deleted
DocMonDelete(n, l) ==
    /\ UNCHANGED <<bside, docIdle>>
    /\ l.pc = "del"
    /\ processes' = [processes EXCEPT ![n] = 0]
    /\ SetLoop(n, l, "sleep", 0)
    /\ UNCHANGED <<fs, alive, nextPid, owner, phase, ret>>

\* line 163 (and 142): the restart interval has passed
DocMonWake(n, l) ==
    /\ UNCHANGED <<bside, docIdle>>
    /\ l.pc = "sleep"
    /\ SetLoop(n, l, "check", 0)
    /\ UNCHANGED <<fs, alive, nextPid, owner, processes, phase, ret>>

DocMonitorProcess(n, l) ==
    \/ DocMonStart(n, l)
    \/ DocMonCheck(n, l)
    \/ DocMonSpawn(n, l)
    \/ DocMonSavePID(n, l)
    \/ DocMonRecord(n, l)
    \/ DocMonWait(n, l)
    \/ DocMonDelete(n, l)
    \/ DocMonWake(n, l)

\* a process exits by itself
DocProcessExit(p) ==
    /\ UNCHANGED <<bside, docIdle>>
    /\ p \in alive
    /\ alive' = alive \ {p}
    /\ UNCHANGED <<fs, nextPid, owner, processes, loops, phase, ret>>

DocNext ==
    \/ DocStartAllProcesses
    \/ \E n \in Names : DocEnableProcess(n)
    \/ \E n \in Names : DocDisableProcess(n)
    \/ \E n \in PMaps : \E l \in Loops(n) : DocMonitorProcess(n, l)
    \/ \E p \in Pids : DocProcessExit(p)

\* the main of the README on an empty disk
DocInit == PidInit
SpecDoc == DocInit /\ [][DocNext]_vars


\* ==================================================== the HTTP limiter
\* rateLimitMiddleware around every handler, with the one limiter of the
\* package.  Time is followed in seconds: the limiter gains one token per
\* second up to its burst, and the requests of a second are counted.

\* limiter.Allow(): a token is there
Allow == tokens >= 1

\* a request on endpoint e goes through rateLimitMiddleware
Request(e) ==
    /\ UNCHANGED <<pvars, bvars, cvars>>
    /\ IF Allow
       THEN /\ tokens' = tokens - 1
            /\ served' = [served EXCEPT ![e] = @ + 1]
            /\ resp' = [endpoint |-> e, status |-> "next"]
       ELSE /\ resp' = [endpoint |-> e, status |-> "429"]
            /\ UNCHANGED <<tokens, served>>

\* a second passes: rate.Every(time.Second) adds a token, up to the burst
SecondPasses ==
    /\ UNCHANGED <<pvars, bvars, cvars>>
    /\ tokens' = IF tokens < Burst THEN tokens + 1 ELSE Burst
    /\ served' = [e \in Endpoints |-> 0]
    /\ UNCHANGED resp

ANext ==
    \/ \E e \in Endpoints : Request(e)
    \/ SecondPasses
SpecAPI == PidInit /\ [][ANext]_vars

\* ================================================================ claims
Acked == "Successfully stopped the map"
NotAcked == "Error: Shutting down the map"

\* C1: in every reachable state each instance has at most one live child
\* process and at most one live monitor loop.
C1_AtMostOneChildAndLoop ==
    \A n \in PMaps : Cardinality(Children(n)) <= 1 /\ LoopCount(n) <= 1

\* C2: an EnableProcess(n) that directly follows an EnableProcess(n) (no other
\* call between them, the monitor loop at any point) returns "Map already
\* running" and leaves exactly one monitor loop for n.
C2_SecondEnableAlreadyRunning ==
    [][\A n \in PMaps :
         (ret.op = "Enable" /\ ret.arg = n /\ EnableProcess(n))
            => (ret'.res = "Map already running" /\ LoopCount(n)' = 1)]_vars

\* C3: a DisableProcess(n) whose shutdown request is acknowledged leaves no
\* PID marker of n (the file its monitor loop writes) and no entry of n in
\* pm.processes, and reports the stop.
C3_AckedDisableCleansUp ==
    [][\A n \in PMaps :
         DisableProcessReply(n, dummyRcon(n, "doexit"))
            => /\ MonitorPidFile(n) \notin DOMAIN fs'
               /\ processes'[n] = 0
               /\ ret'.res = Acked]_vars

\* C4: a DisableProcess(n) whose shutdown request is not acknowledged returns
\* an error and leaves every file and pm.processes as they were.
C4_UnackedDisableKeepsAll ==
    [][\A n \in Names :
         DisableProcessReply(n, "")
            => (ret'.res = NotAcked /\ fs' = fs /\ processes' = processes)]_vars

\* C4 witness: an unacknowledged DisableProcess has returned its error while
\* the PID marker and the entry of the instance exist.
C4_Witness ==
    /\ ret = [op |-> "Disable", arg |-> "a", res |-> NotAcked]
    /\ Exists(MonitorPidFile("a"))
    /\ processes["a"] # 0

\* C5: after StartAllProcesses has found the PID marker of n with a live
\* process, n is enabled, has one monitor loop, and that loop launches no
\* process while the process found stays alive (no other call made since).
C5_ResumeAdopts ==
    \A n \in PMaps :
        (phase = "up" /\ ret.op = "Resume" /\ resumed[n] # 0 /\ resumed[n] \in alive)
            => (myMap[n] /\ LoopCount(n) <= 1 /\ Launched(n) = {})

C7_AtMostOneBackupLoop ==
    \A n \in BMaps : ActiveLoops(n) <= 1

FlagIs(n, text) == SaveFilePath(n) \in DOMAIN fs /\ fs[SaveFilePath(n)] = text

C9_StopEndsCycles ==
    [][\A n \in BMaps :
         bret = [op |-> "Stop", arg |-> n, res |-> "nil"]
            => (FlagIs(n, FalseText) /\ ~schedulers[n] /\ cycles'[n] = cycles[n])]_vars

\* C10: StopBackupSchedule(n) with no entry of n in bm.schedulers returns an
\* error and leaves the files and the tickers as they were.
C10_StopWithoutLoop ==
    [][\A n \in BNames :
         (StopBackupSchedule(n) /\ (n \notin BMaps \/ ~schedulers[n]))
            => (bret'.res = "error" /\ fs' = fs /\ tickers' = tickers)]_vars

\* C10 witness: StopBackupSchedule("a") has returned an error on a manager
\* that never scheduled "a" (its flag file was never written).
C10_Witness ==
    /\ bret = [op |-> "Stop", arg |-> "a", res |-> "error"]
    /\ ~Exists(SaveFilePath("a"))
    /\ FlagIs("b", TrueText) /\ schedulers["b"]

\* C11: a monitor loop launches the replacement of an exited process of a
\* still-enabled instance only after a sleep of one restart interval that
\* began after the exit (the instance having one monitor loop).
C11_RestartAfterFullInterval ==
    [][\A n \in PMaps : \A l \in Loops(n) :
         (LoopCount(n) = 1 /\ MonSpawn(n, l) /\ nextPid' # nextPid) => ~exited[n]]_vars

NotFound == "Eror: Map not found"

\* C12: EnableProcess of a name that is in no configuration returns the
\* not-found text, sets no flag, starts no monitor loop, writes no file and
\* leaves pm.mu free.
C12_EnableUnknownNoEffect ==
    [][\A n \in Names \ PMaps :
         EnableProcess(n)
            => /\ ret' = [op |-> "Enable", arg |-> n, res |-> NotFound]
               /\ myMap' = myMap /\ myMapSarted' = myMapSarted
               /\ loops' = loops /\ processes' = processes
               /\ fs' = fs
               /\ mu' = ""]_vars

\* C12 witness: EnableProcess of the unknown name has returned not-found
\* while a configured instance is enabled with its monitor loop.
C12_Witness ==
    /\ ret = [op |-> "Enable", arg |-> Unknown, res |-> NotFound]
    /\ ~myMap[Unknown]
    /\ myMap["a"] /\ LoopCount("a") = 1

\* C13: when the supervisor has started again, an instance for which the last
\* call before the stop was EnableProcess is enabled, and one for which it was
\* DisableProcess is not (no call made since the start).
C13_FlagSurvivesRestart ==
    \A n \in PMaps :
        (phase = "up" /\ ret.op = "Resume")
            => /\ (wanted[n] = "on" => myMap[n])
               /\ (wanted[n] = "off" => ~myMap[n])

\* ------------------------------------------------- claims on the cycle
\* the archive the cycle of this hour writes
NewZip == ZipName(CycleMap, now)
\* the contents an archive holds
DataOf(z) == {z.entries[i].data : i \in DOMAIN z.entries}
\* the selection as the specification words it: the files with a configured
\* extension and the configured files that exist
Configured(seq) == {seq[i] : i \in DOMAIN seq}
ClaimSelection ==
    {f \in tree : Ext(f) \in Configured(config.FileExtensions)
                    \/ f \in Configured(config.SpecificFiles)}
\* the marker holds the time stamp of hour t
MarkerIs(f, t) ==
    /\ LastBackupFile(CycleMap) \in DOMAIN f
    /\ f[LastBackupFile(CycleMap)] = TimeFormat(t)
\* the fault of a cycle does not strike: nothing fails, or the file that
\* cannot be opened is not selected, or the archive that cannot be removed is
\* not expired
Harmless(fault) ==
    \/ fault.kind = "none"
    \/ fault.kind = "open" /\ fault.file \notin ClaimSelection
    \/ /\ fault.kind = "remove"
       /\ now - zipDir[fault.zip].mod <= config.RetentionDays * HoursPerDay

C15_EntriesKeepRelativePath ==
    [][\A fault \in Faults :
         (cret'.res \in {"nil", "sweep"} /\ CycleStep(CycleMap, fault))
            => LET es == zipDir'[NewZip].entries
               IN  \A i, j \in DOMAIN es :
                      /\ es[i].name = es[i].data
                      /\ (es[i].data # es[j].data => es[i].name # es[j].name)]_vars

\* C16: the retention sweep of a cycle removes an archive only if now minus
\* its modification time is greater than RetentionDays * 24h, and a sweep
\* that returns nil has removed every such archive.
C16_RetentionStrict ==
    [][\A fault \in Faults :
         (cret'.res \in {"nil", "sweep"} /\ CycleStep(CycleMap, fault))
            => \A z \in DOMAIN zipDir :
                  LET gone == z \notin DOMAIN zipDir'
                      old == now - zipDir[z].mod > config.RetentionDays * HoursPerDay
                  IN  /\ gone => old
                      /\ (cret'.res = "nil" /\ old) => gone]_vars

\* C16 witness: with one retention day, the archive of hour 1 is exactly at
\* the boundary and was kept, the archive of hour 0 was removed.
C16_Witness ==
    /\ cret.res = "nil" /\ cret.ts = now
    /\ config.RetentionDays = 1
    /\ OldZip(0) \in cret.removed
    /\ OldZip(1) \in DOMAIN zipDir
    /\ now - zipDir[OldZip(1)].mod = config.RetentionDays * HoursPerDay

\* C17: a cycle that cannot create its archive or cannot read a selected
\* file leaves the marker (and every other file of the data directory) as it
\* was, and the loop is still there, waiting for its next tick.
C17_AbortKeepsMarker ==
    [][\A fault \in Faults :
         (cret'.res \in {"create", "add"} /\ CycleStep(CycleMap, fault))
            => /\ fs' = fs
               /\ ActiveLoops(CycleMap)' = ActiveLoops(CycleMap)
               /\ \A l \in BagToSet(tickers'[CycleMap]) : l.pc = "wait"]_vars

\* C17 witness: the second cycle of the loop failed on a file it could not
\* read, and the marker still holds the time stamp of the first cycle.
C17_Witness ==
    /\ cret.res = "add"
    /\ cycles[CycleMap] = 2
    /\ LastBackupFile(CycleMap) \in DOMAIN fs
    /\ Sscanf(fs[LastBackupFile(CycleMap)]) < cret.ts
    /\ ActiveLoops(CycleMap) = 1

\* C18: a cycle in whose sweep one expired archive cannot be removed still
\* removes every other expired archive and returns nil.
C18_RemovalFailureSkipped ==
    [][\A fault \in Faults :
         (/\ fault.kind = "remove"
          /\ now - zipDir[fault.zip].mod > config.RetentionDays * HoursPerDay
          /\ CycleStep(CycleMap, fault))
            => /\ cret'.res = "nil"
               /\ \A z \in (DOMAIN zipDir) \ {fault.zip} :
                     now - zipDir[z].mod > config.RetentionDays * HoursPerDay
                        => z \notin DOMAIN zipDir']_vars

\* C19: a cycle that selects no file, and in which no operation fails,
\* returns nil, leaves an archive without entries and writes its time stamp
\* to the marker.
C19_EmptySelectionSucceeds ==
    [][\A fault \in Faults :
         (ClaimSelection = {} /\ Harmless(fault) /\ CycleStep(CycleMap, fault))
            => /\ cret'.res = "nil"
               /\ NewZip \in DOMAIN zipDir'
               /\ zipDir'[NewZip].entries = <<>>
               /\ MarkerIs(fs', now)]_vars

\* C19 witness: the tree holds b.tmp only, ".log" is the configured
\* extension, and the cycle has returned nil with an empty archive.
C19_Witness ==
    /\ cret.res = "nil"
    /\ tree = {FTmp}
    /\ config.FileExtensions = <<".log">> /\ config.SpecificFiles = <<>>
    /\ ZipName(CycleMap, cret.ts) \in DOMAIN zipDir
    /\ zipDir[ZipName(CycleMap, cret.ts)].entries = <<>>
    /\ MarkerIs(fs, cret.ts)

\* C20: a StartBackupSchedule(n) that returns nil leaves the flag "true" and
\* a new loop that has its first cycle still to run, without a tick; and
\* every cycle of n is that first cycle of a loop or answers one tick.
C20_FirstCycleThenPerTick ==
    [][\A n \in BMaps :
         /\ (StartBackupSchedule(n) /\ bret'.res = "nil")
               => /\ FlagIs(n, TrueText)'
                  /\ BagIn(NewTicker, tickers'[n])
                  /\ schedulers'[n]
         /\ cycles'[n] # cycles[n]
               => /\ cycles'[n] = cycles[n] + 1
                  /\ \E l \in BagToSet(tickers[n]) :
                        \/ l.pc = "first" /\ LoopFirst(n, l)
                        \/ l.pc = "wait" /\ l.tick = 1 /\ LoopTick(n, l)]_vars

\* C20 witness: since StartBackupSchedule("a") returned nil its loop has run
\* the first cycle and one cycle for a tick.
C20_Witness ==
    /\ bret = [op |-> "Start", arg |-> "a", res |-> "nil"]
    /\ FlagIs("a", TrueText)
    /\ ActiveLoops("a") = 1
    /\ cycles["a"] = 2

\* ------------------------------------- claims on the process environment
\* C21: a monitor loop that finds in the PID file an id that is the id of no
\* live child of the instance (the child is dead, or the id now belongs to
\* another process) takes the instance as not running: it goes on to the
\* enablement flag and the launch, it does not sleep.
C21_StaleMarkerNotRunning ==
    [][\A n \in PMaps : \A l \in Loops(n) :
         (MonCheck(n, l) /\ ReadPID(MonitorPidFile(n)) \notin Children(n))
            => loops'[n] = (loops[n] (-) SetToBag({l}))
                              (+) SetToBag({[pc |-> "flag", cmd |-> 0]})]_vars

\* C23: RetrieveLogs(n) called while the log file of a monitor loop of n
\* exists does not answer "no logs found"; it returns the text of that file
\* when the file has text.
C23_LogsReturnRecord ==
    [][\A n \in PMaps :
         (RetrieveLogs(n) /\ Exists(CreateLogFileName(n)))
            => /\ ret'.res # NoLogsFound
               /\ fs[CreateLogFileName(n)] # <<>>
                     => /\ ret'.res # LogFileEmpty
                        /\ ret'.res = fs[CreateLogFileName(n)]]_vars

\* C27: a monitor loop reads and writes the enablement flag and the started
\* flag only while no other thread holds pm.mu, as it would if it took the
\* lock for the access.
C27_FlagsUnderLock ==
    [][\A n \in PMaps : \A l \in Loops(n) :
         (MonFlag(n, l) \/ MonSetEnabled(n, l) \/ MonSetStarted(n, l))
            => mu = ""]_vars

\* ----------------------------------------- claims on the PID conversions
\* C22: after a SavePID that returns nil, ReadPID gives the process id that
\* was saved, whatever the file held before; and ReadPID returns what the
\* file holds without changing it.
C22_SaveReadRoundTrip ==
    [][/\ \A pid \in PidValues :
            (SavePIDCall(pid) /\ ret'.res = "nil") => ReadPID(PidFile)' = pid
       /\ ReadPIDCall => (ret'.arg.old = ReadPID(PidFile)' /\ fs' = fs)]_vars

\* C22 witness: a SavePID of a process id of two digits has replaced another
\* process id, and ReadPID gives the new one.
C22_Witness ==
    /\ ret.op = "SavePID" /\ ret.res = "nil"
    /\ ret.arg.pid = MaxPidValue
    /\ ret.arg.old \in PidValues \ {ret.arg.pid}
    /\ ReadPID(PidFile) = ret.arg.pid

\* --------------------------------------------- claims on both managers
\* what a path of the disk holds: <<>> without the file, else its contents
FileAt(f, p) == IF p \in DOMAIN f THEN <<f[p]>> ELSE <<>>
\* the backup side of an instance: schedule flag, last backup marker, loops
BackupState(f, n) == <<FileAt(f, SaveFilePath(n)), FileAt(f, LastBackupFile(n))>>
\* the process side of an instance on the disk: its PID files
ProcessFiles(f, n) == <<FileAt(f, GeneratePIDFileName(n)), FileAt(f, MonitorPidFile(n))>>

\* C24: every step that changes the schedule flag, the last backup marker or
\* the backup loops of an instance is a step of the backup manager
\* (StartBackupSchedule, StopBackupSchedule, the start, a backup loop) and
\* changes nothing of the process manager, so EnableProcess, DisableProcess,
\* the monitor loops, the exit waiters and the process exits never change
\* them; and no step that changes the enablement flag, the started flag, the
\* PID files, the entry of pm.processes, the monitor loops or the children of
\* an instance is a step of the backup manager.
C24_SidesIndependent ==
    [][/\ (\/ tickers' # tickers \/ cycles' # cycles
           \/ \E n \in Shared : BackupState(fs', n) # BackupState(fs, n))
          => (pmem' = pmem /\ BBothNext)
       /\ (\/ myMap' # myMap \/ myMapSarted' # myMapSarted
           \/ processes' # processes \/ loops' # loops \/ alive' # alive
           \/ \E n \in Shared : ProcessFiles(fs', n) # ProcessFiles(fs, n))
          => ~BBothNext]_vars

\* C24 witness: the backup loop of "a" has run two cycles and its flag and
\* marker are on the disk, DisableProcess("a") has been acknowledged and the
\* instance has no process.
C24_Witness ==
    /\ cycles["a"] = 2
    /\ FlagIs("a", TrueText)
    /\ Exists(LastBackupFile("a"))
    /\ ActiveLoops("a") = 1
    /\ ret = [op |-> "Disable", arg |-> "a", res |-> "Successfully stopped the map"]
    /\ Children("a") = {}
    /\ nextPid > bootPid

\* -------------------------------- claims on the documented process manager
\* C25: in the documented library, while a DisableProcess(n) that found the
\* process of n running is the last call that was made, n (with its one
\* monitor loop) has no live process, no PID file, and its monitor loop
\* launches no process for it.
C25_DocDisableStops ==
    [][\A n \in PMaps :
         (ret'.op = "Disable" /\ ret'.arg = n /\ ret'.res = "stopped" /\ LoopCount(n) = 1)
            => /\ Children(n)' = {}
               /\ ~Exists(DocPIDFileName(n))'
               /\ (nextPid' = nextPid \/ DocDisableProcess(n))]_vars

\* ------------------------------------------------ claims on the limiter
\* C26: of the requests made to an endpoint within one second at most one is
\* handed to its handler, and a request the limiter refuses is answered 429
\* without its handler being called.
C26_OneRequestPerSecond ==
    [][\A e \in Endpoints :
         Request(e) => /\ served'[e] <= 1
                       /\ resp'.status = "429" => served' = served]_vars

\* ------------------------------------------ claims on the monitor loop
\* the loop in state l of instance n is next in state [pc, 0]
LoopGoes(n, l, pc) ==
    loops'[n] = (loops[n] (-) SetToBag({l})) (+) SetToBag({[pc |-> pc, cmd |-> 0]})
\* q is a live child that was recorded for the instance of the waiter of p
LaterLaunch(p, q) ==
    /\ q # p /\ q \in alive
    /\ waiters[q].pc = "wait" /\ waiters[q].map = waiters[p].map

\* C28: the exit waiter of a launch (of an instance with one monitor loop)
\* removes no PID file that names a live, recorded child of a later launch,
\* and deletes no entry of pm.processes that holds such a child.
C28_CleanupSparesLaterLaunch ==
    [][\A p \in Pids :
         (waiters[p].pc \in {"rm", "del"} /\ LoopCount(waiters[p].map) = 1)
            => /\ WaitRemovePID(p)
                     => ~\E q \in Pids : /\ LaterLaunch(p, q)
                                         /\ ReadPID(MonitorPidFile(waiters[p].map)) = q
               /\ WaitDelete(p)
                     => ~\E q \in Pids : /\ LaterLaunch(p, q)
                                         /\ processes[waiters[p].map] = q]_vars

SpecPMFair ==
    /\ PMInit
    /\ [][PRunNext]_vars
    /\ \A n \in PMaps : WF_vars(\E l \in Loops(n) : MonitorProcess(n, l))
    /\ \A p \in Pids : WF_vars(WaitReturn(p) \/ WaitRemovePID(p) \/ WaitDelete(p))

\* DisableProcess(n) is the last call that was made on the process manager
DisabledLast(n) == ret.op = "Disable" /\ ret.arg = n

\* C31: when DisableProcess(n) is the last call and no process of n is alive,
\* then, unless another call follows or a process of n comes alive again,
\* in the end n has no monitor loop.
C31_DisabledLoopEnds ==
    \A n \in PMaps :
        (DisabledLast(n) /\ Children(n) = {})
            ~> (LoopCount(n) = 0 \/ ~DisabledLast(n) \/ Children(n) # {})

\* C32: an EnableProcess(n) that follows a DisableProcess(n) while the one
\* monitor loop of n is still asleep (it has not read the cleared flag)
\* leaves n with exactly one monitor loop.
C32_ReEnableKeepsOneLoop ==
    [][\A n \in PMaps :
         (/\ DisabledLast(n)
          /\ Loops(n) = {[pc |-> "sleep", cmd |-> 0]} /\ LoopCount(n) = 1
          /\ EnableProcess(n))
            => LoopCount(n)' = 1]_vars

\* the call that holds pm.mu returns
LockHolderReturns ==
    \/ \E n \in Names : EnableEnd(n)
    \/ \E n \in Names : \E reply \in DummyRcon(n, "doexit") : DisableEnd(n, reply)

\* C36: whenever an EnableProcess or DisableProcess call holds pm.mu it can
\* return, and each of its returns (started, already running, not found,
\* stopped, error) leaves pm.mu free.
C36_CallsReleaseLock ==
    /\ [](mu # "" => ENABLED LockHolderReturns)
    /\ [][LockHolderReturns => mu' = ""]_vars

\* C36 witness: after an EnableProcess that returned "Map already running" a
\* DisableProcess has taken pm.mu.
C36_Witness ==
    /\ mu \in Names
    /\ ret.op = "Enable" /\ ret.res = "Map already running"

\* C33: an EnableProcess(n), made right after a StartAllProcesses that
\* resumed n (found its live process and started its monitor loop), returns
\* "Map already running" and starts no monitor loop.
C33_EnableAfterResume ==
    [][\A n \in PMaps :
         (/\ ret.op = "Resume" /\ resumed[n] # 0 /\ LoopCount(n) = 1
          /\ EnableProcess(n))
            => /\ ret'.res = "Map already running"
               /\ loops' = loops]_vars

\* C34: a StartAllProcesses resumes every instance that has a live process
\* whose id is in the PID file its monitor loop wrote.
C34_ResumeReadsLoopMarker ==
    [][StartAllProcesses
         => \A n \in PMaps :
              (\E p \in Children(n) : ReadPID(MonitorPidFile(n)) = p)
                 => (resumed'[n] # 0 /\ LoopCount(n)' = 1)]_vars

\* C35: while DisableProcess(n) is the last call that was made, no monitor
\* loop launches a process for n.
C35_NoLaunchWhileDisabled ==
    [][\A n \in PMaps : \A l \in Loops(n) :
         (DisabledLast(n) /\ l.pc = "spawn" /\ MonSpawn(n, l))
            => nextPid' = nextPid]_vars

\* ------------------------------------------ claims on the /start handler
\* C37: after a /start request for an instance, served by StartProcess, the
\* instance has at most one active backup loop, and an active loop is the
\* entry of bm.schedulers of a BackupManager that later calls work on.
C37_StartLeavesOneReachableLoop ==
    [][\A n \in Shared :
         StartProcess(n)
            => /\ ActiveLoops(n)' <= 1
               /\ \A l \in BagToSet(tickers'[n]) : l.st = "reg"]_vars

\* --------------------------------------- claims on the schedule calls
\* C39: after a StartBackupSchedule(n) or StopBackupSchedule(n) call has
\* returned, with nil or with an error, the flag file of n holds "true"
\* exactly when bm.schedulers has an entry for n.
C39_FlagMatchesSchedule ==
    [][\A n \in BMaps :
         (StartBackupSchedule(n) \/ StopBackupSchedule(n))
            => (FlagIs(n, TrueText)' <=> schedulers'[n])]_vars

\* ------------------------------------------ claims on the backup lock
\* the holder of bm.mu returns
BmuRelease ==
    \/ \E n \in BNames : StartReturn(n) \/ StopReturn(n)
    \/ \E n \in BMaps : \E l \in BagToSet(tickers[n]) : CycleUnlock(n, l)

\* C38: while a backup cycle runs, no other cycle of the manager runs (of the
\* same or of another instance) and no StartBackupSchedule or
\* StopBackupSchedule call is under way; and whoever holds bm.mu can return.
C38_CyclesExclusive ==
    /\ \A n \in BMaps : \A l \in BagToSet(tickers[n]) :
          l.pc = "cycle"
             => /\ bret.res # "pending"
                /\ CopiesIn(l, tickers[n]) = 1
                /\ \A m \in BMaps : \A k \in BagToSet(tickers[m]) :
                      k.pc = "cycle" => (m = n /\ k = l)
    /\ BmuHeld => ENABLED BmuRelease

\* C38 witness: a cycle of one instance runs while a goroutine of the other
\* instance has its first cycle to run.
C38_Witness ==
    \E n \in BMaps : \E m \in BMaps \ {n} :
        /\ \E l \in BagToSet(tickers[n]) : l.pc = "cycle"
        /\ \E k \in BagToSet(tickers[m]) : k.pc = "first"

====
